---- MODULE Spec2Model ----
(***************************************************************************)
(* UPN/UNP QR payload parser, batch deduplication, EPC payload encoder and *)
(* QR text normalisation of unp_to_epc_sepa_qr.                            *)
(*                                                                         *)
(* A Python str is a sequence of one-character strings, a bytes object a   *)
(* sequence of integers 0..255, a decoded text a sequence of code points.  *)
(* Optional[T] is <<>> (None) or <<v>>.  UPNPayment.amount is the float    *)
(* int(s) / 100.0; it is carried as the integer number of hundredths,      *)
(* which determines that float one to one for every 11-digit field, and    *)
(* format_2f turns it back into the text that f"{amount:.2f}" prints.      *)
(* Python indexes from 0, TLA+ from 1: At(lines, k) is lines[k].           *)
(***************************************************************************)
EXTENDS Integers, Sequences, FiniteSets, TLC

VARIABLES
    qr_string,   \* the decoded QR content given to parse_unp_qr_content
    result,      \* what parse_unp_qr_content returned: None or <<UPNPayment>>
    bic,         \* the bic argument of build_epc_payload
    parts,       \* build_epc_payload's list before the trailing trim
    payload,     \* the string build_epc_payload returned
    pc,          \* position of the single-payload pipeline
    qr_strings,  \* parse_all_unp_qr_contents: its argument
    idx,         \* ... number of strings its for loop has consumed
    seen,        \* ... its set of keys
    payments,    \* ... its list of payments
    bpc,         \* ... "loop" until it has returned
    raw,         \* _normalize_qr_content_to_str: its bytes argument
    text,        \* ... the text it returned
    npc,         \* ... "call" until it has returned
    pdf_text,        \* process_pdf: the text layer of the input PDF
    pdf_qr_strings,  \* ... what extract_qr_strings_from_pdf returned
    pdf_payments,    \* ... None, or <<what parse_all_unp_qr_contents returned>>
    pdf_raised,      \* ... None, or <<the exception that left process_pdf>>
    pdf_built,       \* ... None, or <<the payments build_output_pdf was called with>>
    pdf_returned,    \* ... None, or <<the tuple process_pdf returned>>
    ppc,             \* ... its position
    x_env,       \* which imports of pdf_qr_extract.py succeeded
    x_pages,     \* extract_qr_strings_from_pdf: n_pages of the document
    x_doc,       \* ... "none", "open" or "closed": the fitz document
    x_result,    \* ... its result list
    x_renders,   \* ... the <<try_dpi, page_no>> of its _page_to_pil_image calls
    x_pass,      \* ... which of the three resolutions the loop is at (1..3)
    x_page,      \* ... the next page_no of the current pass
    x_raised,    \* ... None, or <<the exception that left or is leaving it>>
    x_returned,  \* ... None, or <<the list it returned>>
    xpc,         \* ... its position
    t_text,      \* the text given to the three text-layout parsers
    t_v1,        \* None, or <<what extract_upn_payments returned>>
    t_v2,        \* None, or <<what extract_upn_payments_v2 returned>>
    t_fb,        \* None, or <<what extract_upn_payments_from_text_fallback returned>>
    mpc,         \* mail_service.main: its position
    m_cycles,    \* ... how many run_once calls it has made
    m_sleeps,    \* ... how many time.sleep calls have returned
    m_caught,    \* ... the exceptions its except clause has caught
    rpc,         \* run_once: its position
    r_mailbox,   \* ... the unseen messages on the server, by message number
    r_flagged,   \* ... the message numbers flagged \Deleted on the server
    r_session,   \* ... "none", "connected", "logged_in", "logged_out"
    r_expunges,  \* ... how many times imap.expunge() was called
    r_messages,  \* ... the list fetch_attachments returned
    r_msg,       \* ... how many of its messages the for loop has taken
    r_att,       \* ... how many attachments of the current message it has taken
    r_reply_attachments,  \* ... the list of that name
    r_body_parts,         \* ... the list of that name
    r_converted, \* ... what process_attachment is about to return
    r_tmp,       \* ... the temporary input files that exist
    r_log,       \* ... what happened to each message taken: a list of records
    r_exc        \* ... None, or <<the exception leaving run_once>>

vars == <<qr_string, result, bic, parts, payload, pc,
          qr_strings, idx, seen, payments, bpc, raw, text, npc,
          pdf_text, pdf_qr_strings, pdf_payments, pdf_raised, pdf_built,
          pdf_returned, ppc,
          x_env, x_pages, x_doc, x_result, x_renders, x_pass, x_page,
          x_raised, x_returned, xpc,
          t_text, t_v1, t_v2, t_fb,
          mpc, m_cycles, m_sleeps, m_caught, rpc, r_mailbox, r_flagged, r_session,
          r_expunges, r_messages, r_msg, r_att, r_reply_attachments, r_body_parts,
          r_converted, r_tmp, r_log, r_exc>>
pipeVars == <<qr_string, result, bic, parts, payload, pc>>
batchVars == <<qr_strings, idx, seen, payments, bpc>>
normVars == <<raw, text, npc>>
pdfVars == <<pdf_text, pdf_qr_strings, pdf_payments, pdf_raised, pdf_built,
            pdf_returned, ppc>>
coreVars == <<pipeVars, batchVars, normVars>>
extractVars == <<x_env, x_pages, x_doc, x_result, x_renders, x_pass, x_page,
                 x_raised, x_returned, xpc>>
textVars == <<t_text, t_v1, t_v2, t_fb>>
mainVars == <<mpc, m_cycles, m_sleeps, m_caught>>
cycleVars == <<rpc, r_mailbox, r_flagged, r_session, r_expunges, r_messages, r_msg,
               r_att, r_reply_attachments, r_body_parts, r_converted, r_tmp, r_log,
               r_exc>>
mailVars == <<mainVars, cycleVars>>
restVars == <<pdfVars, extractVars, textVars, mailVars>>

None == <<>>
Some(v) == <<v>>
At(s, k) == s[k + 1]
Min(a, b) == IF a < b THEN a ELSE b

(***************************************************************************)
(* Program constants.                                                      *)
(***************************************************************************)
UpnLineCount == 19
ChecksumLen == 3
AmountDigits == 11
IbanLen == 19
PurposeCodeMax == 4
NameMax == 70
IbanMax == 34
RemittanceMax == 35
B2oMax == 70

(***************************************************************************)
(* str methods used by the code.                                           *)
(***************************************************************************)
LF == "\n"
WhitespaceChars == {" ", "\t", "\r", LF}
DigitChars == <<"0", "1", "2", "3", "4", "5", "6", "7", "8", "9">>
LowerChars == <<"a", "b", "c", "d", "e", "f", "g", "h", "i", "j", "k", "l", "m",
                "n", "o", "p", "q", "r", "s", "t", "u", "v", "w", "x", "y", "z">>
UpperChars == <<"A", "B", "C", "D", "E", "F", "G", "H", "I", "J", "K", "L", "M",
                "N", "O", "P", "Q", "R", "S", "T", "U", "V", "W", "X", "Y", "Z">>

IsSpace(c) == c \in WhitespaceChars
IsDigitChar(c) == \E d \in 1..10 : DigitChars[d] = c

RECURSIVE lstrip(_)
lstrip(s) == IF s # <<>> /\ IsSpace(Head(s)) THEN lstrip(Tail(s)) ELSE s

RECURSIVE rstrip(_)
rstrip(s) ==
    IF s # <<>> /\ IsSpace(s[Len(s)]) THEN rstrip(SubSeq(s, 1, Len(s) - 1)) ELSE s

strip(s) == rstrip(lstrip(s))

\* s.split("\n"): the pieces between successive LFs, from position `from` on
RECURSIVE SplitFrom(_, _)
SplitFrom(s, from) ==
    IF \A i \in from..Len(s) : s[i] # LF THEN <<SubSeq(s, from, Len(s))>>
    ELSE LET i == CHOOSE i \in from..Len(s) :
                      s[i] = LF /\ \A j \in from..(i - 1) : s[j] # LF
         IN  <<SubSeq(s, from, i - 1)>> \o SplitFrom(s, i + 1)

split_lf(s) == SplitFrom(s, 1)

RECURSIVE join(_, _)
join(sep, xs) ==
    IF xs = <<>> THEN <<>>
    ELSE IF Len(xs) = 1 THEN xs[1]
    ELSE xs[1] \o sep \o join(sep, Tail(xs))

remove_whitespace(s) == SelectSeq(s, LAMBDA c : ~IsSpace(c))
remove_non_digits(s) == SelectSeq(s, IsDigitChar)
remove_spaces(s) == SelectSeq(s, LAMBDA c : c # " ")

UpperChar(c) ==
    IF \E k \in 1..26 : LowerChars[k] = c
    THEN UpperChars[CHOOSE k \in 1..26 : LowerChars[k] = c]
    ELSE c
upper(s) == [i \in 1..Len(s) |-> UpperChar(s[i])]

isdigit(s) == s # <<>> /\ \A i \in 1..Len(s) : IsDigitChar(s[i])
startswith(s, p) == Len(s) >= Len(p) /\ SubSeq(s, 1, Len(p)) = p
slice_to(s, n) == SubSeq(s, 1, Min(n, Len(s)))

DigitValue(c) == (CHOOSE d \in 1..10 : DigitChars[d] = c) - 1
RECURSIVE int(_)
int(s) == IF Len(s) = 1 THEN DigitValue(s[1])
          ELSE 10 * int(SubSeq(s, 1, Len(s) - 1)) + DigitValue(s[Len(s)])

RECURSIVE str_of_nat(_)
str_of_nat(n) ==
    IF n < 10 THEN <<DigitChars[n + 1]>>
    ELSE Append(str_of_nat(n \div 10), DigitChars[(n % 10) + 1])

\* f"{amount:.2f}" of the float that `hundredths` stands for
format_2f(hundredths) ==
    str_of_nat(hundredths \div 100) \o <<".">>
        \o <<DigitChars[((hundredths % 100) \div 10) + 1],
             DigitChars[(hundredths % 10) + 1]>>

(***************************************************************************)
(* String literals.                                                        *)
(***************************************************************************)
s_UPNQR == <<"U", "P", "N", "Q", "R">>
s_SI == <<"S", "I">>
s_Recipient == <<"R", "e", "c", "i", "p", "i", "e", "n", "t">>
s_UPN_payment == <<"U", "P", "N", " ", "p", "a", "y", "m", "e", "n", "t">>
s_BCD == <<"B", "C", "D">>
s_002 == <<"0", "0", "2">>
s_1 == <<"1">>
s_SCT == <<"S", "C", "T">>
s_EUR == <<"E", "U", "R">>

(***************************************************************************)
(* unp_qr_decode.py                                                        *)
(***************************************************************************)
normalize_iban(iban) == upper(remove_whitespace(strip(iban)))

parse_upn_amount(znesek_11) ==
    LET s == remove_non_digits(strip(znesek_11))
    IN  IF Len(s) # AmountDigits THEN None ELSE Some(int(s))

\* lines 50-53: the stripped lines, the last one dropped when it is a checksum
qr_lines(s) ==
    LET pieces == split_lf(strip(s))
        lines == [i \in 1..Len(pieces) |-> strip(pieces[i])]
    IN  IF Len(lines) > UpnLineCount /\ isdigit(lines[Len(lines)])
           /\ Len(lines[Len(lines)]) = ChecksumLen
        THEN SubSeq(lines, 1, Len(lines) - 1)
        ELSE lines

\* line 68: " ".join(filter(None, [lines[17], lines[18]])).strip()
recipient_address_of(lines) ==
    strip(join(<<" ">>, SelectSeq(<<At(lines, 17), At(lines, 18)>>,
                                  LAMBDA x : x # <<>>)))

\* line 69
reference_of(lines) == strip(At(lines, 15))

\* lines 70-72 without the default: purpose_text or purpose_code
purpose_of_without_default(lines) ==
    LET purpose_code == slice_to(strip(At(lines, 11)), PurposeCodeMax)
        purpose_text == strip(At(lines, 12))
    IN  IF purpose_text # <<>> THEN purpose_text ELSE purpose_code

\* lines 70-72
purpose_of(lines) ==
    LET purpose_code == slice_to(strip(At(lines, 11)), PurposeCodeMax)
        purpose_text == strip(At(lines, 12))
    IN  IF purpose_text # <<>> THEN purpose_text
        ELSE IF purpose_code # <<>> THEN purpose_code
        ELSE s_UPN_payment

\* lines 67 and 75
recipient_name_of(lines) ==
    IF strip(At(lines, 16)) # <<>> THEN strip(At(lines, 16)) ELSE s_Recipient

\* parse_unp_qr_content with the IBAN test's `or` written `and`
parse_unp_qr_content_iban_and(s) ==
    IF s = <<>> \/ strip(s) = <<>> THEN None
    ELSE LET lines == qr_lines(s) IN
    IF Len(lines) < UpnLineCount THEN None
    ELSE IF At(lines, 0) # s_UPNQR THEN None
    ELSE LET znesek_val == parse_upn_amount(At(lines, 8)) IN
    IF znesek_val = None \/ znesek_val[1] < 0 THEN None
    ELSE LET iban == normalize_iban(At(lines, 14)) IN
    IF ~startswith(iban, s_SI) /\ Len(iban) # IbanLen THEN None
    ELSE Some([recipient_name |-> recipient_name_of(lines),
               recipient_address |-> recipient_address_of(lines),
               iban |-> iban,
               amount |-> znesek_val[1],
               reference |-> reference_of(lines),
               purpose |-> purpose_of(lines),
               payer_reference |-> <<>>])

parse_unp_qr_content(s) ==
    IF s = <<>> \/ strip(s) = <<>> THEN None
    ELSE LET lines == qr_lines(s) IN
    IF Len(lines) < UpnLineCount THEN None
    ELSE IF At(lines, 0) # s_UPNQR THEN None
    ELSE LET znesek_val == parse_upn_amount(At(lines, 8)) IN
    IF znesek_val = None \/ znesek_val[1] < 0 THEN None
    ELSE LET iban == normalize_iban(At(lines, 14)) IN
    IF ~startswith(iban, s_SI) \/ Len(iban) # IbanLen THEN None
    ELSE Some([recipient_name |-> recipient_name_of(lines),
               recipient_address |-> recipient_address_of(lines),
               iban |-> iban,
               amount |-> znesek_val[1],
               reference |-> reference_of(lines),
               purpose |-> purpose_of(lines),
               payer_reference |-> <<>>])

(***************************************************************************)
(* epc_qr.py                                                               *)
(***************************************************************************)
\* lines 36-48; bic None is <<>>, and (bic or "") makes it ""
epc_parts(p, b) ==
    <<s_BCD, s_002, s_1, s_SCT,
      strip(b),
      slice_to(p.recipient_name, NameMax),
      slice_to(upper(remove_spaces(p.iban)), IbanMax),
      s_EUR \o format_2f(p.amount),
      slice_to(p.purpose, PurposeCodeMax),
      slice_to(slice_to(p.reference, RemittanceMax), RemittanceMax),
      slice_to(p.purpose, B2oMax)>>

\* the trim written as a filter: every empty field removed
trim_all_empty(ps) == SelectSeq(ps, LAMBDA x : x # <<>>)

\* lines 50-51: while len(parts) > 1 and parts[-1] == "": parts.pop()
RECURSIVE trim_trailing_empty(_)
trim_trailing_empty(ps) ==
    IF Len(ps) > 1 /\ ps[Len(ps)] = <<>>
    THEN trim_trailing_empty(SubSeq(ps, 1, Len(ps) - 1))
    ELSE ps

build_epc_payload(p, b) == join(<<LF>>, trim_trailing_empty(epc_parts(p, b)))

(***************************************************************************)
(* Single-payload pipeline: one QR content string is parsed              *)
(* (parse_unp_qr_content) and the record, if any, is encoded              *)
(* (build_epc_payload).                                                    *)
(***************************************************************************)
MaxCut == 1       \* how many of the 19 fields an input may lack at its end
MaxAmount == 2    \* how many distinct valid amount fields the inputs use

s_UPNQ == <<"U", "P", "N", "Q">>
s_amount == <<"0", "0", "0", "0", "0", "0", "0", "2", "8", "7", "4">>
s_amount10 == <<"0", "0", "0", "0", "0", "0", "2", "8", "7", "4">>
s_amount_dot == <<"0", "0", "0", "0", "0", "0", "0", "2", "8", ".", "7", "4">>
s_amount_zero == <<"0", "0", "0", "0", "0", "0", "0", "0", "0", "0", "0">>
s_amount_minus == <<"-", "0", "0", "0", "0", "0", "0", "0", "2", "8", "7", "4">>
s_OTHR == <<"O", "T", "H", "R">>
s_purpose == <<"P", "r", "i", "s", "p", "e", "v", "e", "k", " ", "z", "a", " ", "D", "O">>
s_iban == <<"S", "I", "5", "6", "1", "1", "0", "0", "2", "2", "3", "3", "4", "4", "5", "5", "6", "6", "7">>
s_iban_spaced == <<"s", "i", "5", "6", " ", "1", "1", "0", "0", " ", "2", "2", "3", "3", " ", "4", "4", "5", "5", " ", "6", "6", "7">>
s_iban_AT == <<"A", "T", "5", "6", "1", "1", "0", "0", "2", "2", "3", "3", "4", "4", "5", "5", "6", "6", "7">>
s_iban_short == <<"S", "I", "5", "6", "1", "1", "0", "0", "2", "2", "3", "3", "4", "4", "5", "5", "6", "6">>
s_ref == <<"S", "I", "1", "9", " ", "1", "2", "3", "4", "5", "-", "6", "7", "8", "9", "0">>
s_ref_nospace == <<"S", "I", "1", "9", "1", "2", "3", "4", "5", "-", "6", "7", "8", "9", "0">>
s_name == <<"J", "A", "N", "E", "Z", " ", "N", "O", "V", "A", "K">>
s_name2 == <<"A", "N", "A", " ", "K", "O", "S">>
s_street == <<"D", "U", "N", "A", "J", "S", "K", "A", " ", "1">>
s_city == <<"L", "J", "U", "B", "L", "J", "A", "N", "A">>
s_123 == <<"1", "2", "3">>
s_12 == <<"1", "2">>
s_bic == <<"L", "J", "B", "A", "S", "I", "2", "X">>
s_bic_padded == <<" ", "L", "J", "B", "A", "S", "I", "2", "X", " ">>

\* the k-th valid 11-digit amount field: 00000002874, 00000002875, ...
\* (the amounts used stay far below 2^31 hundredths, the range of TLC's
\* integers; Python's int and float have no such limit at 11 digits)
amount_field(k) ==
    LET d == str_of_nat(2873 + k)
    IN  [i \in 1..(AmountDigits - Len(d)) |-> "0"] \o d

\* the 19 fields of a UPN QR payload, in the order the header comment of
\* unp_qr_decode.py gives (0: UPNQR, 8: znesek, 11: koda_namena, ...)
upn_fields(hdr, znesek, koda, namen, iban, ref, ime, ulica, kraj) ==
    <<hdr, <<>>, <<>>, <<>>, <<>>, <<>>, <<>>, <<>>, znesek, <<>>, <<>>,
      koda, namen, <<>>, iban, ref, ime, ulica, kraj>>

\* fields joined by LF, each one ended by LF when `ended`
upn_text(fields, ended) ==
    join(<<LF>>, fields) \o (IF ended /\ fields # <<>> THEN <<LF>> ELSE <<>>)

Headers == {s_UPNQR, s_UPNQ}
AmountFields ==
    {amount_field(k) : k \in 1..MaxAmount}
        \cup {s_amount10, s_amount_dot, s_amount_zero, s_amount_minus}
Purposes == {<<s_OTHR, s_purpose>>, <<s_OTHR, <<>>>>, <<<<>>, <<>>>>}
Ibans == {s_iban, s_iban_spaced, s_iban_AT, s_iban_short}
Recipients == {<<s_ref, s_name, s_street, s_city>>,
               <<s_ref, s_name, <<>>, <<>>>>,
               <<<<>>, <<>>, <<>>, <<>>>>}
Leads == {<<>>, <<" ">>}
\* what follows the last field: nothing, its LF, a checksum line, a short line
Tails == {<<>>, <<LF>>, <<LF>> \o s_123, <<LF>> \o s_123 \o <<LF>>, <<LF>> \o s_12}
Bics == {<<>>, s_bic, s_bic_padded}

QrInputs ==
    {lead \o join(<<LF>>, SubSeq(upn_fields(h, a, pu[1], pu[2], ib, r[1], r[2], r[3], r[4]),
                                 1, UpnLineCount - cut)) \o tail :
        <<lead, h, a, pu, ib, r, cut, tail>> \in
            Leads \X Headers \X AmountFields \X Purposes \X Ibans \X Recipients
                  \X (0..MaxCut) \X Tails}

PipeIdle ==
    /\ qr_string = <<>> /\ result = None /\ bic = <<>>
    /\ parts = <<>> /\ payload = <<>> /\ pc = "idle"
BatchIdle ==
    /\ qr_strings = <<>> /\ idx = 0 /\ seen = {} /\ payments = <<>> /\ bpc = "idle"
NormIdle == raw = <<>> /\ text = <<>> /\ npc = "idle"
PdfIdle ==
    /\ pdf_text = <<>>
    /\ pdf_qr_strings = <<>> /\ pdf_payments = <<>> /\ pdf_raised = <<>>
    /\ pdf_built = <<>> /\ pdf_returned = <<>> /\ ppc = "idle"
CoreIdle == PipeIdle /\ BatchIdle /\ NormIdle
ExtractIdle ==
    /\ x_env = <<>> /\ x_pages = 0 /\ x_doc = "none" /\ x_result = <<>>
    /\ x_renders = <<>> /\ x_pass = 0 /\ x_page = 0
    /\ x_raised = <<>> /\ x_returned = <<>> /\ xpc = "idle"
TextIdle == t_text = <<>> /\ t_v1 = <<>> /\ t_v2 = <<>> /\ t_fb = <<>>
CycleIdle ==
    /\ rpc = "idle" /\ r_mailbox = <<>> /\ r_flagged = {} /\ r_session = "none"
    /\ r_expunges = 0 /\ r_messages = <<>> /\ r_msg = 0 /\ r_att = 0
    /\ r_reply_attachments = <<>> /\ r_body_parts = <<>> /\ r_converted = <<>>
    /\ r_tmp = {} /\ r_log = <<>> /\ r_exc = <<>>
MailIdle ==
    /\ mpc = "idle" /\ m_cycles = 0 /\ m_sleeps = 0 /\ m_caught = <<>>
    /\ CycleIdle
RestIdle == PdfIdle /\ ExtractIdle /\ TextIdle /\ MailIdle

InitParse ==
    /\ qr_string \in QrInputs
    /\ result = None /\ bic = <<>> /\ parts = <<>> /\ payload = <<>>
    /\ pc = "start"
    /\ BatchIdle /\ NormIdle /\ RestIdle

Parse ==
    /\ pc = "start"
    /\ result' = parse_unp_qr_content(qr_string)
    /\ pc' = "parsed"
    /\ UNCHANGED <<qr_string, bic, parts, payload>>
    /\ UNCHANGED batchVars /\ UNCHANGED normVars /\ UNCHANGED restVars

Encode ==
    /\ pc = "parsed"
    /\ result # None
    /\ \E b \in Bics :
        /\ bic' = b
        /\ parts' = epc_parts(result[1], b)
        /\ payload' = build_epc_payload(result[1], b)
    /\ pc' = "encoded"
    /\ UNCHANGED <<qr_string, result>>
    /\ UNCHANGED batchVars /\ UNCHANGED normVars /\ UNCHANGED restVars

NextParse == Parse \/ Encode
SpecParse == InitParse /\ [][NextParse]_vars

(***************************************************************************)
(* Claims about parse_unp_qr_content (SpecParse).                          *)
(***************************************************************************)
\* The newline-separated lines of a text as its author counts them: a final
\* LF ends the last line, it does not start another one.
text_lines(s) ==
    LET ps == split_lf(s)
    IN  IF ps[Len(ps)] = <<>> THEN SubSeq(ps, 1, Len(ps) - 1) ELSE ps

IsCompleteRecord(r) ==
    DOMAIN r = {"recipient_name", "recipient_address", "iban", "amount",
                "reference", "purpose", "payer_reference"}

\* C1: a content string of at least 19 newline-separated lines whose line 0
\* is UPNQR, whose line 8 holds exactly 11 digits and whose line 14
\* (whitespace removed, uppercased) starts with SI and has 19 characters is
\* parsed into a record with amount = digits / 100 and that iban, also when
\* its trailing fields (lines 17 and 18) are empty.
C1_ValidPayloadParses ==
    pc # "start" =>
        LET L == text_lines(qr_string) IN
        (/\ Len(L) >= 19
         /\ At(L, 0) = s_UPNQR
         /\ Len(remove_non_digits(At(L, 8))) = 11
         /\ startswith(upper(remove_whitespace(At(L, 14))), s_SI)
         /\ Len(upper(remove_whitespace(At(L, 14)))) = 19)
        => /\ result # None
           /\ result[1].amount = int(remove_non_digits(At(L, 8)))
           /\ result[1].iban = upper(remove_whitespace(At(L, 14)))

\* C2: an input that is empty after trimming, or has fewer than 19 lines
\* after the optional checksum line is dropped, or whose line 0 is not UPNQR,
\* or whose line 8 does not hold exactly 11 digits, or whose normalized line
\* 14 does not start with SI or is not 19 characters long, yields None; and
\* whatever the input, the result is None or a complete record.
C2_InvalidPayloadIsAbsent ==
    pc # "start" =>
        /\ result = None \/ (Len(result) = 1 /\ IsCompleteRecord(result[1]))
        /\ LET L == qr_lines(qr_string) IN
           (\/ strip(qr_string) = <<>>
            \/ Len(L) < 19
            \/ At(L, 0) # s_UPNQR
            \/ Len(remove_non_digits(At(L, 8))) # 11
            \/ ~startswith(upper(remove_whitespace(At(L, 14))), s_SI)
            \/ Len(upper(remove_whitespace(At(L, 14)))) # 19)
           => result = None

\* C2's case: a parsed input with 19 lines, the header and a valid amount,
\* rejected for its IBAN alone
C2_Witness ==
    /\ pc = "parsed"
    /\ result = None
    /\ Len(qr_lines(qr_string)) >= 19
    /\ At(qr_lines(qr_string), 0) = s_UPNQR
    /\ Len(remove_non_digits(At(qr_lines(qr_string), 8))) = 11
    /\ Len(upper(remove_whitespace(At(qr_lines(qr_string), 14)))) = 19
    /\ ~startswith(upper(remove_whitespace(At(qr_lines(qr_string), 14))), s_SI)

\* C3: a 20-line input whose 20th line is exactly 3 digits parses to the
\* same result as the input without that line, also when the last of the
\* remaining 19 lines are empty.
C3_ChecksumLineIsIgnored ==
    pc # "start" =>
        LET L == text_lines(qr_string) IN
        (Len(L) = 20 /\ Len(At(L, 19)) = 3 /\ isdigit(At(L, 19)))
        => result = parse_unp_qr_content(upn_text(SubSeq(L, 1, 19), TRUE))

\* the 19-line QR content of the literal scenario
ScenarioContent ==
    upn_text(upn_fields(s_UPNQR, s_amount, s_OTHR, s_purpose, s_iban, s_ref,
                        s_name, s_street, s_city), TRUE)

\* C6: the literal scenario parses to amount 28.74, iban
\* SI56110022334455667, reference SI1912345-67890 (the space removed),
\* recipient_name JANEZ NOVAK and purpose Prispevek za DO.
C6_LiteralParse ==
    (pc # "start" /\ qr_string = ScenarioContent) =>
        /\ result # None
        /\ result[1].amount = 2874
        /\ result[1].iban = s_iban
        /\ result[1].reference = s_ref_nospace
        /\ result[1].recipient_name = s_name
        /\ result[1].purpose = s_purpose

\* C8: the list build_epc_payload builds before trimming is BCD, 002, 1, SCT,
\* the BIC, the name cut to 70, the IBAN without spaces, uppercased, cut to
\* 34, EUR and the amount with two decimals after a period, the purpose code
\* cut to 4, the reference cut to 35, the purpose text cut to 70; the payload
\* is these fields joined by single LFs.  (The BIC is compared after
\* trimming; the purpose code is that of the payload the record came from.)
C8_FieldList ==
    pc = "encoded" =>
        LET p == result[1]
            code == strip(At(qr_lines(qr_string), 11))
        IN  /\ parts = <<s_BCD, s_002, s_1, s_SCT,
                         strip(bic),
                         slice_to(p.recipient_name, 70),
                         slice_to(upper(remove_spaces(p.iban)), 34),
                         s_EUR \o format_2f(p.amount),
                         slice_to(code, 4),
                         slice_to(p.reference, 35),
                         slice_to(p.purpose, 70)>>
            /\ payload = join(<<LF>>, trim_trailing_empty(parts))

\* line 8 aside, the payload passes every test of parse_unp_qr_content
OtherwiseValid(L) ==
    /\ Len(L) >= 19
    /\ At(L, 0) = s_UPNQR
    /\ startswith(normalize_iban(At(L, 14)), s_SI)
    /\ Len(normalize_iban(At(L, 14))) = 19

\* C11: an otherwise valid payload whose amount field is eleven zeros parses
\* to a record with amount 0; an otherwise valid payload whose amount field
\* is a minus sign followed by 11 digits parses to None; no record returned
\* has an amount below 0.
C11_ZeroAcceptedNegativeRejected ==
    pc # "start" =>
        LET L == qr_lines(qr_string) IN
        /\ (OtherwiseValid(L) /\ At(L, 8) = s_amount_zero)
               => (result # None /\ result[1].amount = 0)
        /\ (OtherwiseValid(L) /\ Len(At(L, 8)) = 12 /\ At(L, 8)[1] = "-"
                /\ isdigit(SubSeq(At(L, 8), 2, 12)))
               => result = None
        /\ result # None => result[1].amount >= 0


(***************************************************************************)
(* build_epc_payload on records of any origin (SpecEpc).                   *)
(***************************************************************************)
LongExcess == 1   \* by how much an over-long field exceeds its EPC limit

s_EUR28_74 == <<"E", "U", "R", "2", "8", ".", "7", "4">>
long_text(c, n) == [i \in 1..n |-> c]

EpcRecords ==
    [recipient_name : {s_name, <<>>, long_text("N", NameMax + LongExcess)},
     recipient_address : {<<>>},
     iban : {s_iban, s_iban_spaced, long_text("1", IbanMax + LongExcess)},
     amount : {0, 5, 2874, 100000},
     reference : {<<>>, s_ref_nospace, long_text("7", RemittanceMax + LongExcess)},
     purpose : {<<>>, s_OTHR, s_purpose, long_text("p", B2oMax + LongExcess)},
     payer_reference : {<<>>}]

InitEpc ==
    /\ qr_string = <<>>
    /\ result \in {Some(r) : r \in EpcRecords}
    /\ bic = <<>> /\ parts = <<>> /\ payload = <<>>
    /\ pc = "parsed"
    /\ BatchIdle /\ NormIdle /\ RestIdle

NextEpc == Encode
SpecEpc == InitEpc /\ [][NextEpc]_vars

\* the record of the literal scenario
ScenarioRecord ==
    [recipient_name |-> s_name, recipient_address |-> <<>>, iban |-> s_iban,
     amount |-> 2874, reference |-> s_ref_nospace, purpose |-> s_purpose,
     payer_reference |-> <<>>]

\* C7: the scenario record (purpose code OTHR in its UPN payload), encoded
\* with an empty BIC, gives the lines BCD, 002, 1, SCT, (empty), JANEZ NOVAK,
\* SI56110022334455667, EUR28.74, OTHR, SI1912345-67890, Prispevek za DO.
C7_LiteralEncode ==
    (pc = "encoded" /\ result = Some(ScenarioRecord) /\ bic = <<>>) =>
        split_lf(payload) = <<s_BCD, s_002, s_1, s_SCT, <<>>, s_name, s_iban,
                              s_EUR28_74, s_OTHR, s_ref_nospace, s_purpose>>

\* C9: the payload's fields are the 11-field list up to and including its
\* last non-empty field, each at its own position; only empty fields after
\* it are dropped; the last field is non-empty; at least 7 fields remain.
C9_TrimOnlyTrailingEmpty ==
    pc = "encoded" =>
        LET out == split_lf(payload)
            n == Len(out)
        IN  /\ Len(parts) = 11
            /\ 7 <= n /\ n <= 11
            /\ out[n] # <<>>
            /\ \A i \in 1..n : out[i] = parts[i]
            /\ \A i \in (n + 1)..11 : parts[i] = <<>>

\* C9's case: empty purpose, empty reference and empty BIC, and an empty
\* name left in place before the IBAN
C9_Witness ==
    /\ pc = "encoded"
    /\ bic = <<>>
    /\ result[1].purpose = <<>> /\ result[1].reference = <<>>
    /\ result[1].recipient_name = <<>>
    /\ Len(split_lf(payload)) = 8
    /\ Len(parts) = 11

HasNoLF(str) == \A i \in 1..Len(str) : str[i] # LF

\* C22: a record parse_unp_qr_content returns has a non-empty
\* recipient_name ('Recipient' when line 16 is empty), a non-empty purpose
\* (the purpose text, else the purpose code, else 'UPN payment') and no LF in
\* any field; and build_epc_payload of it, with any BIC, has exactly 11
\* LF-separated fields: the trim removes none, and the 8th is 'EUR' followed
\* by the amount.
C22_ElevenFields ==
    /\ (pc # "start" /\ result # None) =>
           LET r == result[1]
               L == qr_lines(qr_string)
           IN  /\ r.recipient_name # <<>>
               /\ strip(At(L, 16)) = <<>> => r.recipient_name = s_Recipient
               /\ r.purpose # <<>>
               /\ r.purpose \in {strip(At(L, 12)), slice_to(strip(At(L, 11)), 4),
                                 s_UPN_payment}
               /\ strip(At(L, 12)) # <<>> => r.purpose = strip(At(L, 12))
               /\ (strip(At(L, 12)) = <<>> /\ strip(At(L, 11)) # <<>>) =>
                      r.purpose = slice_to(strip(At(L, 11)), 4)
               /\ \A f \in {"recipient_name", "recipient_address", "iban",
                            "reference", "purpose", "payer_reference"} : HasNoLF(r[f])
    /\ pc = "encoded" =>
           LET out == split_lf(payload)
           IN  /\ Len(out) = 11
               /\ out = parts
               /\ out[8] = s_EUR \o format_2f(result[1].amount)

\* C22's case: a payload with no recipient name, no purpose text, no purpose
\* code and no reference, encoded without BIC: the placeholders keep the
\* last field and the name filled
C22_Witness ==
    /\ pc = "encoded"
    /\ bic = <<>>
    /\ strip(At(qr_lines(qr_string), 16)) = <<>>
    /\ strip(At(qr_lines(qr_string), 11)) = <<>>
    /\ strip(At(qr_lines(qr_string), 12)) = <<>>
    /\ result[1].reference = <<>>
    /\ result[1].recipient_name = s_Recipient
    /\ result[1].purpose = s_UPN_payment
    /\ Len(split_lf(payload)) = 11

(***************************************************************************)
(* parse_all_unp_qr_contents (Spec): the for loop, one iteration a step.   *)
(***************************************************************************)
MaxBatch == 3     \* how many QR strings one call is given at most

\* line 93 with the recipient name taken into the key
payment_key_with_name(p) == <<p.iban, p.reference, p.amount, p.recipient_name>>

\* line 93: key = (p.iban, p.reference, p.amount)
payment_key(p) == <<p.iban, p.reference, p.amount>>

\* line 97 with the payment put in front
list_prepend(xs, x) == <<x>> \o xs

\* line 97: payments.append(p)
list_append(xs, x) == Append(xs, x)

ScenarioFields(znesek, ime, hdr) ==
    upn_fields(hdr, znesek, s_OTHR, s_purpose, s_iban, s_ref, ime, s_street, s_city)

BatchInputs ==
    {upn_text(ScenarioFields(s_amount, s_name, s_UPNQR), TRUE),
     upn_text(ScenarioFields(s_amount, s_name2, s_UPNQR), TRUE),
     upn_text(ScenarioFields(amount_field(2), s_name, s_UPNQR), TRUE),
     upn_text(ScenarioFields(s_amount, s_name, s_UPNQ), TRUE),
     upn_text(ScenarioFields(s_amount, s_name, s_UPNQR), TRUE) \o s_123}

Init ==
    /\ qr_strings \in UNION {[1..n -> BatchInputs] : n \in 0..MaxBatch}
    /\ idx = 0 /\ seen = {} /\ payments = <<>>
    /\ bpc = "loop"
    /\ PipeIdle /\ NormIdle /\ RestIdle

\* lines 90-92: p is None: continue
LoopSkipInvalid ==
    /\ bpc = "loop" /\ idx < Len(qr_strings)
    /\ parse_unp_qr_content(qr_strings[idx + 1]) = None
    /\ idx' = idx + 1
    /\ UNCHANGED <<qr_strings, seen, payments, bpc>>
    /\ UNCHANGED pipeVars /\ UNCHANGED normVars /\ UNCHANGED restVars

\* lines 93-95: key in seen: continue
LoopSkipSeen ==
    /\ bpc = "loop" /\ idx < Len(qr_strings)
    /\ LET p == parse_unp_qr_content(qr_strings[idx + 1])
       IN  p # None /\ payment_key(p[1]) \in seen
    /\ idx' = idx + 1
    /\ UNCHANGED <<qr_strings, seen, payments, bpc>>
    /\ UNCHANGED pipeVars /\ UNCHANGED normVars /\ UNCHANGED restVars

\* lines 96-97
LoopAppend ==
    /\ bpc = "loop" /\ idx < Len(qr_strings)
    /\ LET p == parse_unp_qr_content(qr_strings[idx + 1])
       IN  /\ p # None /\ payment_key(p[1]) \notin seen
           /\ seen' = seen \cup {payment_key(p[1])}
           /\ payments' = list_append(payments, p[1])
    /\ idx' = idx + 1
    /\ UNCHANGED <<qr_strings, bpc>>
    /\ UNCHANGED pipeVars /\ UNCHANGED normVars /\ UNCHANGED restVars

\* line 98
Return ==
    /\ bpc = "loop" /\ idx = Len(qr_strings)
    /\ bpc' = "returned"
    /\ UNCHANGED <<qr_strings, idx, seen, payments>>
    /\ UNCHANGED pipeVars /\ UNCHANGED normVars /\ UNCHANGED restVars

Next == LoopSkipInvalid \/ LoopSkipSeen \/ LoopAppend \/ Return
Spec == Init /\ [][Next]_vars

\* what each input string parses to, what the i-th string of the call parses
\* to, and the claims' key of a record
ParseOf == [s \in BatchInputs |-> parse_unp_qr_content(s)]
Parsed(i) == ParseOf[qr_strings[i]]
Key3(r) == <<r.iban, r.reference, r.amount>>
\* the first input string that yields a record with key k
FirstWith(k) ==
    CHOOSE i \in 1..Len(qr_strings) :
        /\ Parsed(i) # None /\ Key3(Parsed(i)[1]) = k
        /\ \A j \in 1..(i - 1) : Parsed(j) = None \/ Key3(Parsed(j)[1]) # k

\* C4: the returned list holds no two records with the same (iban,
\* reference, amount), and the record kept for a key is the one parsed from
\* the first input string that yields that key.
C4_FirstOfEachKeyIsKept ==
    bpc = "returned" =>
        /\ \A i, j \in 1..Len(payments) :
               i # j => Key3(payments[i]) # Key3(payments[j])
        /\ \A j \in 1..Len(payments) :
               /\ \E i \in 1..Len(qr_strings) :
                      Parsed(i) # None /\ Key3(Parsed(i)[1]) = Key3(payments[j])
               /\ payments[j] = Parsed(FirstWith(Key3(payments[j])))[1]

\* C4's case: two payloads that differ only in the recipient name, one
\* record returned, the first one's
C4_Witness ==
    /\ bpc = "returned"
    /\ Len(qr_strings) = 2
    /\ Parsed(1) # None /\ Parsed(2) # None
    /\ Key3(Parsed(1)[1]) = Key3(Parsed(2)[1])
    /\ Parsed(1)[1].recipient_name # Parsed(2)[1].recipient_name
    /\ payments = <<Parsed(1)[1]>>

\* C5: strings that fail validation are skipped and change nothing else;
\* every key some valid input yields is in the output; every output record
\* is the parse of an input; the records stand in the order in which their
\* keys first occur in the input.  (The list is thereby a function of the
\* input sequence alone.)
C5_BatchIsFirstOccurrenceList ==
    bpc = "returned" =>
        LET valid == {i \in 1..Len(qr_strings) : Parsed(i) # None}
        IN  /\ \A i \in valid :
                   \E j \in 1..Len(payments) :
                       Key3(payments[j]) = Key3(Parsed(i)[1])
            /\ \A j \in 1..Len(payments) :
                   \E i \in valid : payments[j] = Parsed(i)[1]
            /\ Len(payments) = Cardinality({Key3(Parsed(i)[1]) : i \in valid})
            /\ \A j, k \in 1..Len(payments) :
                   j < k => FirstWith(Key3(payments[j])) < FirstWith(Key3(payments[k]))

\* C5's case: an invalid string between two valid ones with different keys
C5_Witness ==
    /\ bpc = "returned"
    /\ Len(qr_strings) = 3
    /\ Parsed(1) # None /\ Parsed(2) = None /\ Parsed(3) # None
    /\ Key3(Parsed(1)[1]) # Key3(Parsed(3)[1])
    /\ payments = <<Parsed(1)[1], Parsed(3)[1]>>

(***************************************************************************)
(* pdf_qr_extract.py: _normalize_qr_content_to_str on a bytes argument     *)
(* (SpecNorm).  A decoder gives None where Python raises                   *)
(* UnicodeDecodeError.                                                     *)
(***************************************************************************)
MaxBufLen == 3    \* length of the longest byte buffer

ReplacementChar == 65533

\* bytes.decode("iso-8859-2"): the code point of each byte 0..255
Iso8859_2 ==
    <<
       0, 1, 2, 3, 4, 5, 6, 7, 8, 9, 10, 11, 12, 13, 14, 15, 16, 17, 18, 19,
       20, 21, 22, 23, 24, 25, 26, 27, 28, 29, 30, 31, 32, 33, 34, 35, 36,
       37, 38, 39, 40, 41, 42, 43, 44, 45, 46, 47, 48, 49, 50, 51, 52, 53,
       54, 55, 56, 57, 58, 59, 60, 61, 62, 63, 64, 65, 66, 67, 68, 69, 70,
       71, 72, 73, 74, 75, 76, 77, 78, 79, 80, 81, 82, 83, 84, 85, 86, 87,
       88, 89, 90, 91, 92, 93, 94, 95, 96, 97, 98, 99, 100, 101, 102, 103,
       104, 105, 106, 107, 108, 109, 110, 111, 112, 113, 114, 115, 116, 117,
       118, 119, 120, 121, 122, 123, 124, 125, 126, 127, 128, 129, 130, 131,
       132, 133, 134, 135, 136, 137, 138, 139, 140, 141, 142, 143, 144, 145,
       146, 147, 148, 149, 150, 151, 152, 153, 154, 155, 156, 157, 158, 159,
       160, 260, 728, 321, 164, 317, 346, 167, 168, 352, 350, 356, 377, 173,
       381, 379, 176, 261, 731, 322, 180, 318, 347, 711, 184, 353, 351, 357,
       378, 733, 382, 380, 340, 193, 194, 258, 196, 313, 262, 199, 268, 201,
       280, 203, 282, 205, 206, 270, 272, 323, 327, 211, 212, 336, 214, 215,
       344, 366, 218, 368, 220, 221, 354, 223, 341, 225, 226, 259, 228, 314,
       263, 231, 269, 233, 281, 235, 283, 237, 238, 271, 273, 324, 328, 243,
       244, 337, 246, 247, 345, 367, 250, 369, 252, 253, 355, 729
    >>

\* bytes.decode("cp1250"): the code point of each byte, -1 where undefined
Cp1250 ==
    <<
       0, 1, 2, 3, 4, 5, 6, 7, 8, 9, 10, 11, 12, 13, 14, 15, 16, 17, 18, 19,
       20, 21, 22, 23, 24, 25, 26, 27, 28, 29, 30, 31, 32, 33, 34, 35, 36,
       37, 38, 39, 40, 41, 42, 43, 44, 45, 46, 47, 48, 49, 50, 51, 52, 53,
       54, 55, 56, 57, 58, 59, 60, 61, 62, 63, 64, 65, 66, 67, 68, 69, 70,
       71, 72, 73, 74, 75, 76, 77, 78, 79, 80, 81, 82, 83, 84, 85, 86, 87,
       88, 89, 90, 91, 92, 93, 94, 95, 96, 97, 98, 99, 100, 101, 102, 103,
       104, 105, 106, 107, 108, 109, 110, 111, 112, 113, 114, 115, 116, 117,
       118, 119, 120, 121, 122, 123, 124, 125, 126, 127, 8364, -1, 8218, -1,
       8222, 8230, 8224, 8225, -1, 8240, 352, 8249, 346, 356, 381, 377, -1,
       8216, 8217, 8220, 8221, 8226, 8211, 8212, -1, 8482, 353, 8250, 347,
       357, 382, 378, 160, 711, 728, 321, 164, 260, 166, 167, 168, 169, 350,
       171, 172, 173, 174, 379, 176, 177, 731, 322, 180, 181, 182, 183, 184,
       261, 351, 187, 317, 733, 318, 380, 340, 193, 194, 258, 196, 313, 262,
       199, 268, 201, 280, 203, 282, 205, 206, 270, 272, 323, 327, 211, 212,
       336, 214, 215, 344, 366, 218, 368, 220, 221, 354, 223, 341, 225, 226,
       259, 228, 314, 263, 231, 269, 233, 281, 235, 283, 237, 238, 271, 273,
       324, 328, 243, 244, 337, 246, 247, 345, 367, 250, 369, 252, 253, 355,
       729
    >>

IsCont(b, i) == i <= Len(b) /\ b[i] >= 128 /\ b[i] <= 191

\* bytes.decode("utf-8") from position i on (strict: no overlong forms, no
\* surrogates, nothing above U+10FFFF)
RECURSIVE Utf8From(_, _)
Utf8From(b, i) ==
    IF i > Len(b) THEN Some(<<>>)
    ELSE LET c == b[i]
             n == IF c < 128 THEN 1
                  ELSE IF c >= 194 /\ c <= 223 /\ IsCont(b, i + 1) THEN 2
                  ELSE IF /\ c >= 224 /\ c <= 239
                          /\ IsCont(b, i + 1) /\ IsCont(b, i + 2)
                          /\ (c = 224 => b[i + 1] >= 160)
                          /\ (c = 237 => b[i + 1] <= 159) THEN 3
                  ELSE IF /\ c >= 240 /\ c <= 244
                          /\ IsCont(b, i + 1) /\ IsCont(b, i + 2) /\ IsCont(b, i + 3)
                          /\ (c = 240 => b[i + 1] >= 144)
                          /\ (c = 244 => b[i + 1] <= 143) THEN 4
                  ELSE 0
             cp == IF n = 1 THEN c
                   ELSE IF n = 2 THEN (c - 192) * 64 + (b[i + 1] - 128)
                   ELSE IF n = 3 THEN (c - 224) * 4096 + (b[i + 1] - 128) * 64
                                      + (b[i + 2] - 128)
                   ELSE (c - 240) * 262144 + (b[i + 1] - 128) * 4096
                        + (b[i + 2] - 128) * 64 + (b[i + 3] - 128)
         IN  IF n = 0 THEN None
             ELSE LET rest == Utf8From(b, i + n)
                  IN  IF rest = None THEN None ELSE Some(<<cp>> \o rest[1])

decode_table(table, b) ==
    IF \E i \in 1..Len(b) : table[b[i] + 1] < 0 THEN None
    ELSE Some([i \in 1..Len(b) |-> table[b[i] + 1]])

\* raw.decode(enc)
decode(enc, b) ==
    CASE enc = "utf-8" -> Utf8From(b, 1)
      [] enc = "iso-8859-2" -> decode_table(Iso8859_2, b)
      [] enc = "cp1250" -> decode_table(Cp1250, b)
      [] enc = "latin-1" -> Some(b)

\* raw.decode("utf-8", errors="replace"), line 104: U+FFFD for what does not
\* decode (one per offending byte here; the line is reached only if Latin-1
\* fails, which no byte makes it do)
RECURSIVE decode_utf_8_replace(_)
decode_utf_8_replace(b) ==
    IF b = <<>> THEN <<>>
    ELSE IF \E n \in 1..Len(b) : Utf8From(SubSeq(b, 1, n), 1) # None
    THEN LET n == CHOOSE n \in 1..Len(b) : Utf8From(SubSeq(b, 1, n), 1) # None
         IN  Utf8From(SubSeq(b, 1, n), 1)[1]
                 \o decode_utf_8_replace(SubSeq(b, n + 1, Len(b)))
    ELSE <<ReplacementChar>> \o decode_utf_8_replace(Tail(b))

\* line 99 with Latin-1 tried before the Central European code pages
EncodingsLatin1Early == <<"utf-8", "latin-1", "iso-8859-2", "cp1250">>

\* line 99: for enc in ("utf-8", "iso-8859-2", "cp1250", "latin-1")
Encodings == <<"utf-8", "iso-8859-2", "cp1250", "latin-1">>

\* lines 98-104: the first encoding of Encodings[k..] that decodes b
RECURSIVE decode_first(_, _)
decode_first(b, k) ==
    IF k > Len(Encodings) THEN decode_utf_8_replace(b)
    ELSE IF decode(Encodings[k], b) # None THEN decode(Encodings[k], b)[1]
    ELSE decode_first(b, k + 1)

normalize_qr_content_to_str(b) == decode_first(b, 1)

NormBytes == {65, 129, 141, 161, 196, 197, 232, 255}

InitNorm ==
    /\ raw \in UNION {[1..n -> NormBytes] : n \in 0..MaxBufLen}
    /\ text = <<>>
    /\ npc = "call"
    /\ PipeIdle /\ BatchIdle /\ RestIdle

Normalize ==
    /\ npc = "call"
    /\ text' = normalize_qr_content_to_str(raw)
    /\ npc' = "returned"
    /\ UNCHANGED raw
    /\ UNCHANGED pipeVars /\ UNCHANGED batchVars /\ UNCHANGED restVars

NextNorm == Normalize
SpecNorm == InitNorm /\ [][NextNorm]_vars

\* C10: the text returned for a byte buffer is its decoding under the first
\* of UTF-8, ISO-8859-2, Windows-1250, Latin-1 that decodes the whole
\* buffer; Latin-1 decodes every buffer, so there always is one and no
\* replacement character is ever produced; an ISO-8859-2 byte of c-caron
\* (0xE8) in a buffer that is not valid UTF-8 comes out as U+010D.
C10_FirstEncodingThatDecodes ==
    npc = "returned" =>
        LET order == <<"utf-8", "iso-8859-2", "cp1250", "latin-1">>
            ok(k) == decode(order[k], raw) # None
        IN  /\ ok(4)
            /\ \A k \in 1..4 :
                   (ok(k) /\ \A j \in 1..(k - 1) : ~ok(j))
                   => text = decode(order[k], raw)[1]
            /\ \A i \in 1..Len(text) : text[i] # ReplacementChar
            /\ ~ok(1) =>
                   /\ Len(text) = Len(raw)
                   /\ \A i \in 1..Len(raw) : raw[i] = 232 => text[i] = 269

\* C10's case: the single byte 0xE8, not valid UTF-8, returned as U+010D
C10_Witness ==
    /\ npc = "returned"
    /\ raw = <<232>>
    /\ decode("utf-8", raw) = None
    /\ text = <<269>>

(***************************************************************************)
(* upn_parser.py: the three text-layout parsers (SpecText).                *)
(* re.match(pattern, s) is a predicate on s, written out for each pattern. *)
(* An amount is the float that float(s) gives for digits, a period and two *)
(* digits; it is carried as the integer number of hundredths.              *)
(***************************************************************************)
s_SI56 == <<"S", "I", "5", "6">>
s_SI19 == <<"S", "I", "1", "9">>
s_RF == <<"R", "F">>
s_Prispevek == <<"P", "r", "i", "s", "p", "e", "v", "e", "k">>
s_LBRI == <<"L", "B", "R", "I">>
s_LT10 == <<"L", "T", "1", "0">>

\* `sub in s`
contains(s, sub) ==
    \E i \in 1..(Len(s) - Len(sub) + 1) : SubSeq(s, i, i + Len(sub) - 1) = sub

\* re.sub(r"\s+", " ", s)
collapse_whitespace(s) ==
    LET m == [i \in 1..Len(s) |->
                 IF ~IsSpace(s[i]) THEN s[i]
                 ELSE IF i > 1 /\ IsSpace(s[i - 1]) THEN "" ELSE " "]
    IN  SelectSeq(m, LAMBDA c : c # "")

\* how many characters of s, from position `from` on, satisfy P in a row
Span(s, from, P(_)) ==
    LET stops == {i \in from..Len(s) : ~P(s[i])}
    IN  IF stops = {} THEN Len(s) - from + 1
        ELSE (CHOOSE i \in stops : \A k \in stops : i <= k) - from

\* `$`: the end of the string, or the place before a final LF
AtEnd(s, pos) == pos = Len(s) + 1 \/ (pos = Len(s) /\ s[pos] = LF)

IsDigitOrSpace(c) == IsDigitChar(c) \/ IsSpace(c)
IsDigitOrHyphen(c) == IsDigitChar(c) \/ c = "-"
IsStar(c) == c = "*"

\* line 47: ^SI\d{2}\s*[\d\s]+$
iban_re(s) ==
    /\ Len(s) >= 5
    /\ SubSeq(s, 1, 2) = s_SI
    /\ IsDigitChar(s[3]) /\ IsDigitChar(s[4])
    /\ Span(s, 5, IsDigitOrSpace) = Len(s) - 4

\* lines 152 and 253: ^SI56\s*[\d\s]+$
iban56_re(s) ==
    /\ Len(s) >= 5
    /\ SubSeq(s, 1, 4) = s_SI56
    /\ Span(s, 5, IsDigitOrSpace) = Len(s) - 4

\* line 48: ^SI19\s+[\d\-]+$
si19_re(s) ==
    /\ startswith(s, s_SI19)
    /\ LET ws == Span(s, 5, IsSpace)
           body == Span(s, 5 + ws, IsDigitOrHyphen)
       IN  ws >= 1 /\ body >= 1 /\ AtEnd(s, 5 + ws + body)

\* lines 153 and 254: ^SI19\s*[\d\-]+$
si19_opt_re(s) ==
    /\ startswith(s, s_SI19)
    /\ LET ws == Span(s, 5, IsSpace)
           body == Span(s, 5 + ws, IsDigitOrHyphen)
       IN  body >= 1 /\ AtEnd(s, 5 + ws + body)

\* lines 49, 154 and 255: ^\*+\s*[\d]+[,\.]\d{2}\s*$
amount_re(s) ==
    LET stars == Span(s, 1, IsStar)
        ws == Span(s, 1 + stars, IsSpace)
        d0 == 1 + stars + ws
        digits == Span(s, d0, IsDigitChar)
        sep == d0 + digits
    IN  /\ stars >= 1 /\ digits >= 1
        /\ Len(s) >= sep + 2
        /\ s[sep] \in {",", "."}
        /\ IsDigitChar(s[sep + 1]) /\ IsDigitChar(s[sep + 2])
        /\ Span(s, sep + 3, IsSpace) = Len(s) - (sep + 2)

\* lines 105 and 200: ^RF\d{2}\s*$
rf_re(s) ==
    /\ Len(s) >= 4
    /\ SubSeq(s, 1, 2) = s_RF
    /\ IsDigitChar(s[3]) /\ IsDigitChar(s[4])
    /\ Span(s, 5, IsSpace) = Len(s) - 4

\* line 295: ^\d{10}\s*$
ten_digits_re(s) ==
    /\ Len(s) >= 10
    /\ isdigit(SubSeq(s, 1, 10))
    /\ Span(s, 11, IsSpace) = Len(s) - 10

\* lines 22-24
upn_normalize_iban(iban) == upper(remove_whitespace(strip(iban)))

\* float(s) for the texts the amount pattern lets through: digits, a period
\* and two digits, blanks around them; None stands for ValueError
float_of(s) ==
    LET t == strip(s)
        digits == Span(t, 1, IsDigitChar)
    IN  IF /\ digits >= 1 /\ Len(t) = digits + 3 /\ t[digits + 1] = "."
           /\ IsDigitChar(t[digits + 2]) /\ IsDigitChar(t[digits + 3])
        THEN Some(100 * int(SubSeq(t, 1, digits)) + int(SubSeq(t, digits + 2, digits + 3)))
        ELSE None

\* lines 27-35
parse_amount(s) ==
    LET t == strip(s)
        u == SubSeq(t, Span(t, 1, IsStar) + 1, Len(t))
        v == [i \in 1..Len(u) |-> IF u[i] = "," THEN "." ELSE u[i]]
    IN  float_of(v)

\* text.splitlines() for texts whose only line break is LF
splitlines(s) ==
    IF s = <<>> THEN <<>>
    ELSE LET ps == split_lf(s)
         IN  IF ps[Len(ps)] = <<>> THEN SubSeq(ps, 1, Len(ps) - 1) ELSE ps

\* lines 43, 148 and 250
text_parser_lines(s) ==
    LET ls == splitlines(s)
        stripped == [i \in 1..Len(ls) |-> strip(ls[i])]
    IN  SelectSeq(stripped, LAMBDA ln : ln # <<>>)

\* UPNPayment(...) of lines 128-136, 229-237 and 306-314
UPNPayment(recipient_name, recipient_address, iban, amount, reference, purpose, payer_reference) ==
    [recipient_name |-> recipient_name, recipient_address |-> recipient_address,
     iban |-> iban, amount |-> amount, reference |-> reference,
     purpose |-> purpose, payer_reference |-> payer_reference]

\* lines 87-90: name and address when the block is complete
names_at_break(st) ==
    LET named == IF st.name_candidates # <<>>
                 THEN [st EXCEPT !.recipient_name = st.name_candidates[1]]
                 ELSE st
    IN  IF Len(st.name_candidates) > 1
        THEN [named EXCEPT !.recipient_address =
                               join(<<" ">>, Tail(st.name_candidates))]
        ELSE named

\* lines 121-124: name and address after the scan
names_at_end(st) ==
    LET named == IF st.recipient_name = <<>> /\ st.name_candidates # <<>>
                 THEN [st EXCEPT !.recipient_name = st.name_candidates[1]]
                 ELSE st
    IN  IF Len(st.name_candidates) > 1
        THEN [named EXCEPT !.recipient_address =
                               join(<<" ">>, Tail(st.name_candidates))]
        ELSE named

\* lines 75-118: the inner while loop of extract_upn_payments from line j
\* (0-based) on; the value is the block's variables when the loop is left
RECURSIVE block_scan(_, _, _)
block_scan(lines, j, st) ==
    IF j >= Len(lines) THEN st
    ELSE
    LET cur == At(lines, j)
        cur_clean == collapse_whitespace(cur)
    IN
    IF iban_re(remove_whitespace(cur)) /\ contains(cur, s_SI56) THEN
        LET st1 == IF j + 1 < Len(lines) /\ si19_re(remove_spaces(At(lines, j + 1)))
                   THEN [st EXCEPT !.ref_si19 = remove_whitespace(At(lines, j + 1))]
                   ELSE st
            st2 == IF j + 2 < Len(lines) /\ amount_re(At(lines, j + 2))
                   THEN [st1 EXCEPT !.amount_val = parse_amount(At(lines, j + 2))]
                   ELSE st1
        IN  IF st2.amount_val # None /\ st2.ref_si19 # <<>>
            THEN names_at_break(st2)
            ELSE block_scan(lines, j + 1, st2)
    ELSE IF si19_re(remove_whitespace(cur)) THEN
        block_scan(lines, j + 1, [st EXCEPT !.ref_si19 = remove_whitespace(cur)])
    ELSE IF amount_re(cur) THEN
        block_scan(lines, j + 1, [st EXCEPT !.amount_val = parse_amount(cur)])
    ELSE IF rf_re(cur) THEN
        block_scan(lines, j + 1, [st EXCEPT !.payer_ref = strip(cur)])
    ELSE IF st.ref_si19 = <<>> /\ ~amount_re(cur) THEN
        IF st.recipient_name = <<>> /\ cur_clean # <<>> /\ Len(cur_clean) > 2
        THEN block_scan(lines, j + 1,
                        [st EXCEPT !.name_candidates = Append(@, cur_clean)])
        ELSE IF st.recipient_name # <<>> /\ contains(cur, s_Prispevek)
        THEN block_scan(lines, j + 1, [st EXCEPT !.purpose = cur_clean])
        ELSE block_scan(lines, j + 1, st)
    ELSE block_scan(lines, j + 1, st)

\* lines 64-73: the variables of a block before its scan
BlockStart ==
    [recipient_name |-> <<>>, recipient_address |-> <<>>, purpose |-> <<>>,
     ref_si19 |-> <<>>, amount_val |-> None, payer_ref |-> <<>>,
     name_candidates |-> <<>>]

\* lines 51-139: the outer while loop of extract_upn_payments from line i on
RECURSIVE extract_from(_, _, _)
extract_from(lines, i, acc) ==
    IF i >= Len(lines) THEN acc
    ELSE
    LET line == At(lines, i) IN
    IF ~iban_re(remove_whitespace(line)) \/ ~contains(line, s_SI56)
    THEN extract_from(lines, i + 1, acc)
    ELSE
    LET iban == upn_normalize_iban(line) IN
    IF ~startswith(iban, s_SI56) \/ Len(iban) # IbanLen
    THEN extract_from(lines, i + 1, acc)
    ELSE
    LET st == block_scan(lines, i + 1, BlockStart) IN
    IF st.amount_val # None /\ st.amount_val[1] > 0 /\ st.ref_si19 # <<>> /\ iban # <<>>
    THEN LET fin == names_at_end(st)
         IN  extract_from(lines, i + 1,
                 Append(acc,
                     UPNPayment(IF fin.recipient_name # <<>> THEN fin.recipient_name
                                ELSE s_Recipient,
                                fin.recipient_address, iban, fin.amount_val[1],
                                fin.ref_si19,
                                IF fin.purpose # <<>> THEN fin.purpose ELSE s_UPN_payment,
                                fin.payer_ref)))
    ELSE extract_from(lines, i + 1, acc)

\* lines 38-141
extract_upn_payments(txt) == extract_from(text_parser_lines(txt), 0, <<>>)

LookBack == 25
NameSkip == 3
RefWindow == 18
NameWindow == 25

Max(a, b) == IF a > b THEN a ELSE b

\* lines 180-185: the IBAN line nearest above line i, None if there is none
iban_above(lines, i) ==
    LET ks == {k \in (Max(-1, i - LookBack) + 1)..(i - 1) :
                  /\ iban56_re(remove_whitespace(At(lines, k)))
                  /\ contains(At(lines, k), s_SI56)
                  /\ Len(remove_whitespace(At(lines, k))) = IbanLen}
    IN  IF ks = {} THEN <<>>
        ELSE upn_normalize_iban(At(lines, CHOOSE k \in ks : \A m \in ks : m <= k))

\* lines 194-217: the name loop of extract_upn_payments_v2 from line j on
RECURSIVE v2_names(_, _, _, _)
v2_names(lines, j, ref_si19, st) ==
    IF j >= Len(lines) THEN st
    ELSE
    LET ln == At(lines, j)
        ln_clean == collapse_whitespace(ln)
    IN
    IF amount_re(ln) \/ si19_opt_re(remove_whitespace(ln))
    THEN v2_names(lines, j + 1, ref_si19, st)
    ELSE IF rf_re(ln)
    THEN v2_names(lines, j + 1, ref_si19, [st EXCEPT !.payer_ref = strip(ln)])
    ELSE IF contains(ln, s_Prispevek)
    THEN [st EXCEPT !.purpose = ln_clean]
    ELSE
    LET st1 == IF ln # <<>> /\ remove_whitespace(ln) # ref_si19 /\ ~contains(ln, s_SI56)
               THEN [st EXCEPT !.name_lines = Append(@, ln_clean)]
               ELSE st
    IN  IF st1.purpose # <<>> /\ Len(st1.name_lines) >= 1 THEN st1
        ELSE v2_names(lines, j + 1, ref_si19, st1)

\* lines 169 and 263 with `<=` written `<`
amount_invalid_below_zero(amount_val) == amount_val = None \/ amount_val[1] < 0

\* lines 169 and 263: amount_val is None or amount_val <= 0
amount_invalid(amount_val) == amount_val = None \/ amount_val[1] <= 0

\* lines 226 and 303: key not in seen
key_unseen(key, keys) == key \notin keys

\* lines 157-239: the while loop of extract_upn_payments_v2 from line i on
RECURSIVE v2_from(_, _, _, _)
v2_from(lines, i, keys, acc) ==
    IF i >= Len(lines) THEN acc
    ELSE
    LET line == At(lines, i) IN
    IF ~si19_opt_re(remove_whitespace(line)) THEN v2_from(lines, i + 1, keys, acc)
    ELSE
    LET ref_si19 == remove_whitespace(line) IN
    IF i + 1 >= Len(lines) \/ ~amount_re(At(lines, i + 1))
    THEN v2_from(lines, i + 1, keys, acc)
    ELSE
    LET amount_val == parse_amount(At(lines, i + 1)) IN
    IF amount_invalid(amount_val) THEN v2_from(lines, i + 1, keys, acc)
    ELSE
    LET iban == iban_above(lines, i) IN
    IF iban = <<>> THEN v2_from(lines, i + 1, keys, acc)
    ELSE
    LET st == v2_names(lines, i + NameSkip, ref_si19,
                       [name_lines |-> <<>>, purpose |-> <<>>, payer_ref |-> <<>>])
        recipient_name == IF st.name_lines # <<>> THEN st.name_lines[1] ELSE <<>>
        recipient_address == IF Len(st.name_lines) > 1
                             THEN join(<<" ">>, Tail(st.name_lines)) ELSE <<>>
        purpose == IF st.purpose # <<>> THEN st.purpose ELSE s_UPN_payment
        key == <<iban, ref_si19, amount_val[1]>>
    IN  IF key_unseen(key, keys)
        THEN v2_from(lines, i + 1, keys \cup {key},
                 Append(acc,
                     UPNPayment(IF recipient_name # <<>> THEN recipient_name
                                ELSE s_Recipient,
                                recipient_address, iban, amount_val[1], ref_si19,
                                purpose, st.payer_ref)))
        ELSE v2_from(lines, i + 1, keys, acc)

\* lines 144-241
extract_upn_payments_v2(txt) == v2_from(text_parser_lines(txt), 0, {}, <<>>)

\* lines 273-280: the IBAN and the reference in lines k..hi-1
RECURSIVE fallback_find(_, _, _, _)
fallback_find(lines, k, hi, iban) ==
    IF k >= hi THEN [iban |-> iban, ref_si19 |-> <<>>]
    ELSE
    LET cur == At(lines, k)
        cur_nospace == remove_whitespace(cur)
        iban1 == IF /\ iban56_re(cur_nospace) /\ contains(cur, s_SI56)
                    /\ Len(cur_nospace) = IbanLen
                 THEN upn_normalize_iban(cur) ELSE iban
    IN  IF si19_opt_re(cur_nospace) THEN [iban |-> iban1, ref_si19 |-> cur_nospace]
        ELSE fallback_find(lines, k + 1, hi, iban1)

\* lines 287-296: the names and the purpose in lines k..hi-1
RECURSIVE fallback_names(_, _, _, _)
fallback_names(lines, k, hi, name_lines) ==
    IF k >= hi THEN [name_lines |-> name_lines, purpose |-> <<>>]
    ELSE
    LET ln == At(lines, k)
        ln_clean == collapse_whitespace(ln)
    IN
    IF contains(ln, s_Prispevek) THEN [name_lines |-> name_lines, purpose |-> ln_clean]
    ELSE IF iban56_re(remove_whitespace(ln)) \/ si19_opt_re(remove_whitespace(ln))
    THEN fallback_names(lines, k + 1, hi, name_lines)
    ELSE IF /\ ln # <<>> /\ ~contains(ln, s_LBRI) /\ ~contains(ln, s_LT10)
            /\ ~ten_digits_re(ln)
    THEN fallback_names(lines, k + 1, hi, Append(name_lines, ln_clean))
    ELSE fallback_names(lines, k + 1, hi, name_lines)

\* lines 258-316: the while loop of extract_upn_payments_from_text_fallback
RECURSIVE fallback_from(_, _, _, _)
fallback_from(lines, i, keys, acc) ==
    IF i >= Len(lines) THEN acc
    ELSE IF ~amount_re(At(lines, i)) THEN fallback_from(lines, i + 1, keys, acc)
    ELSE
    LET amount_val == parse_amount(At(lines, i)) IN
    IF amount_invalid(amount_val)
    THEN fallback_from(lines, i + 1, keys, acc)
    ELSE
    LET j == IF i + 1 < Len(lines) /\ amount_re(At(lines, i + 1)) THEN i + 2 ELSE i + 1
        found == fallback_find(lines, j, Min(Len(lines), j + RefWindow), <<>>)
    IN
    IF found.iban = <<>> \/ found.ref_si19 = <<>>
    THEN fallback_from(lines, i + 1, keys, acc)
    ELSE
    LET nm == fallback_names(lines, j + 1, Min(Len(lines), j + NameWindow), <<>>)
        recipient_name == IF nm.name_lines # <<>> THEN nm.name_lines[1] ELSE s_Recipient
        recipient_address == IF Len(nm.name_lines) > 1
                             THEN join(<<" ">>, Tail(nm.name_lines)) ELSE <<>>
        purpose == IF nm.purpose # <<>> THEN nm.purpose ELSE s_UPN_payment
        key == <<found.iban, found.ref_si19, amount_val[1]>>
    IN  IF key_unseen(key, keys)
        THEN fallback_from(lines, i + 1, keys \cup {key},
                 Append(acc, UPNPayment(recipient_name, recipient_address, found.iban,
                                        amount_val[1], found.ref_si19, purpose, <<>>)))
        ELSE fallback_from(lines, i + 1, keys, acc)

\* lines 244-318
extract_upn_payments_from_text_fallback(txt) ==
    fallback_from(text_parser_lines(txt), 0, {}, <<>>)

MaxBlocks == 2    \* how many payment blocks a text holds at most

l_iban == <<"S", "I", "5", "6", " ", "1", "1", "0", "0", " ", "2", "2", "3", "3", " ", "4", "4", "5", "5", " ", "6", "6", "7">>
l_iban_other == <<"S", "I", "5", "6", " ", "1", "1", "0", "0", " ", "2", "2", "3", "3", " ", "4", "4", "5", "5", " ", "6", "6", "8">>
l_ref_tab == <<"S", "I", "1", "9", "\t", "1", "2", "3", "4", "5", "-", "6", "7", "8", "9", "0">>
l_amount == <<"*", "*", "*", "2", "8", ",", "7", "4">>
l_amount_dot == <<"*", "2", "8", ".", "7", "4">>
l_amount_zero == <<"*", "*", "*", "0", ",", "0", "0">>
l_rf == <<"R", "F", "1", "2">>
l_lbri == <<"L", "B", "R", "I", " ", "0", "1", "2", "3", "4", "5", "6", "7", "8", "9">>

\* the block extract_upn_payments documents (lines 39-41 and 80): IBAN, name,
\* IBAN again, reference, amount
ForwardBlock(iban, ref, amount) == <<iban, s_name, iban, ref, amount>>

\* the order extract_upn_payments_v2 reads (lines 146 and 191)
BackwardBlock(iban, amount) ==
    <<iban, s_ref, amount, amount, s_name, s_street, l_rf, s_purpose>>

\* the order extract_upn_payments_from_text_fallback reads (lines 246-248)
AmountFirstBlock(iban, amount) ==
    <<amount, amount, iban, s_ref, l_lbri, iban, s_name, s_street>>

TextBlocks ==
    {ForwardBlock(l_iban, r, a) : r \in {s_ref, l_ref_tab}, a \in {l_amount, l_amount_zero}}
    \cup {BackwardBlock(i, a) : i \in {l_iban, l_iban_other}, a \in {l_amount, l_amount_zero}}
    \cup {AmountFirstBlock(l_iban, a) : a \in {l_amount, l_amount_dot, l_amount_zero}}

RECURSIVE concat(_)
concat(xss) == IF xss = <<>> THEN <<>> ELSE Head(xss) \o concat(Tail(xss))

TextInputs ==
    {upn_text(concat(bs), TRUE) :
        bs \in UNION {[1..n -> TextBlocks] : n \in 0..MaxBlocks}}

InitText ==
    /\ t_text \in TextInputs
    /\ t_v1 = None /\ t_v2 = None /\ t_fb = None
    /\ CoreIdle /\ PdfIdle /\ ExtractIdle /\ MailIdle

\* lines 38-141
TextExtract ==
    /\ t_v1 = None
    /\ t_v1' = Some(extract_upn_payments(t_text))
    /\ UNCHANGED <<t_text, t_v2, t_fb>>
    /\ UNCHANGED coreVars /\ UNCHANGED pdfVars /\ UNCHANGED extractVars
    /\ UNCHANGED mailVars

\* lines 144-241
TextExtractV2 ==
    /\ t_v2 = None
    /\ t_v2' = Some(extract_upn_payments_v2(t_text))
    /\ UNCHANGED <<t_text, t_v1, t_fb>>
    /\ UNCHANGED coreVars /\ UNCHANGED pdfVars /\ UNCHANGED extractVars
    /\ UNCHANGED mailVars

\* lines 244-318
TextFallback ==
    /\ t_fb = None
    /\ t_fb' = Some(extract_upn_payments_from_text_fallback(t_text))
    /\ UNCHANGED <<t_text, t_v1, t_v2>>
    /\ UNCHANGED coreVars /\ UNCHANGED pdfVars /\ UNCHANGED extractVars
    /\ UNCHANGED mailVars

NextText == TextExtract \/ TextExtractV2 \/ TextFallback
SpecText == InitText /\ [][NextText]_vars

\* the results of the parsers that have run
TextResults == SelectSeq(<<t_v1, t_v2, t_fb>>, LAMBDA res : res # None)

HasNoWhitespace(s) == \A i \in 1..Len(s) : ~IsSpace(s[i])

\* the value, in hundredths, of an amount line such as ***28,74: its digits
AmountLineValue(ln) == int(remove_non_digits(ln))

\* C17: every record any of the three text parsers returns has an amount
\* above 0 that is the value of an asterisk-padded amount line of the text
\* (asterisks stripped, comma read as the decimal separator), an iban that
\* starts with SI56, is 19 characters long and holds no whitespace, and a
\* non-empty reference that starts with SI19 and holds no whitespace; when no
\* amount line of the text has a value above 0, no record is returned.
C17_TextRecordsAreValid ==
    LET lines == text_parser_lines(t_text)
        amount_lines == {i \in 1..Len(lines) : lines[i][1] = "*"}
    IN
    \A k \in 1..Len(TextResults) :
        LET records == TextResults[k][1] IN
        /\ \A i \in 1..Len(records) :
               LET r == records[i] IN
               /\ r.amount > 0
               /\ \E a \in amount_lines : AmountLineValue(lines[a]) = r.amount
               /\ startswith(r.iban, s_SI56) /\ Len(r.iban) = 19
               /\ HasNoWhitespace(r.iban)
               /\ r.reference # <<>> /\ startswith(r.reference, s_SI19)
               /\ HasNoWhitespace(r.reference)
        /\ (\A a \in amount_lines : AmountLineValue(lines[a]) <= 0) => records = <<>>

\* C17's cases: all three parsers have run on a text that holds a block with
\* the amount ***0,00 and a block with a positive amount, each returned a
\* record, and none returned one for the zero amount
C17_Witness ==
    /\ t_v1 # None /\ t_v2 # None /\ t_fb # None
    /\ \E i \in 1..Len(text_parser_lines(t_text)) :
           text_parser_lines(t_text)[i] = l_amount_zero
    /\ Len(t_v1[1]) >= 1 /\ Len(t_v2[1]) >= 1 /\ Len(t_fb[1]) >= 1

\* C18: none of the three text parsers returns two records with the same
\* (iban, reference, amount).
C18_TextParsersDeduplicate ==
    \A k \in 1..Len(TextResults) :
        LET records == TextResults[k][1] IN
        \A i, j \in 1..Len(records) :
            (<<records[i].iban, records[i].reference, records[i].amount>>
                 = <<records[j].iban, records[j].reference, records[j].amount>>)
            => i = j

\* the text is one block as extract_upn_payments documents it: a 19-character
\* SI56 IBAN, a name, the same IBAN, 'SI19', a space, digits and hyphens, and
\* an asterisk-padded amount above 0
IsDocumentedBlock(lines) ==
    /\ Len(lines) = 5
    /\ startswith(lines[1], s_SI56)
    /\ Len(upn_normalize_iban(lines[1])) = 19
    /\ lines[3] = lines[1]
    /\ startswith(lines[4], s_SI19)
    /\ Len(lines[4]) > 5
    /\ lines[4][5] = " "
    /\ \A k \in 6..Len(lines[4]) : IsDigitOrHyphen(lines[4][k])
    /\ lines[5][1] = "*"
    /\ AmountLineValue(lines[5]) > 0

MaxQrCodes == 2   \* how many QR strings the extraction returns at most

PreviewMax == 200

\* parse_all_unp_qr_contents as a function of its argument: the loop of
\* lines 89-97 from string k on, with the keys seen and the payments so far
RECURSIVE parse_all_from(_, _, _, _)
parse_all_from(qs, k, keys, acc) ==
    IF k > Len(qs) THEN acc
    ELSE LET p == parse_unp_qr_content(qs[k]) IN
         IF p = None THEN parse_all_from(qs, k + 1, keys, acc)
         ELSE IF payment_key(p[1]) \in keys THEN parse_all_from(qs, k + 1, keys, acc)
         ELSE parse_all_from(qs, k + 1, keys \cup {payment_key(p[1])},
                             list_append(acc, p[1]))

parse_all_unp_qr_contents(qs) == parse_all_from(qs, 1, {}, <<>>)

\* repr() of a str: the quote is ' unless the text holds ' and no "; the
\* backslash, the quote, LF, CR and TAB are escaped (the other characters
\* the inputs use are printable and stand for themselves)
repr_char(c, quote) ==
    IF c = "\\" THEN <<"\\", "\\">>
    ELSE IF c = quote THEN <<"\\", c>>
    ELSE IF c = LF THEN <<"\\", "n">>
    ELSE IF c = "\r" THEN <<"\\", "r">>
    ELSE IF c = "\t" THEN <<"\\", "t">>
    ELSE <<c>>

\* the escaped characters lo..hi of str, put together by halves
RECURSIVE repr_body(_, _, _, _)
repr_body(str, lo, hi, quote) ==
    IF lo > hi THEN <<>>
    ELSE IF lo = hi THEN repr_char(str[lo], quote)
    ELSE LET mid == (lo + hi) \div 2
         IN  repr_body(str, lo, mid, quote) \o repr_body(str, mid + 1, hi, quote)

repr(str) ==
    LET has(c) == \E i \in 1..Len(str) : str[i] = c
        quote == IF has("'") /\ ~has("\"") THEN "\"" ELSE "'"
    IN  <<quote>> \o repr_body(str, 1, Len(str), quote) \o <<quote>>

\* line 165 with the cut left out
preview_whole(str) == str

\* line 165
preview_of(str) ==
    IF Len(str) > PreviewMax THEN slice_to(str, PreviewMax) \o <<".", ".", ".">>
    ELSE str

\* line 166
first_line_of(str) ==
    IF strip(str) # <<>> THEN split_lf(strip(str))[1] ELSE <<>>

\* lines 159-163
NoQrMessage ==
    <<"No QR codes found in the PDF. ",
      "The file may contain text only (no QR images). ",
      "Use a PDF that includes actual QR codes (e.g. upn-qr.si).">>

\* lines 167-172
NotUpnMessage(n, first_line, preview) ==
    <<"Found ", str_of_nat(n),
      " QR code(s) in the PDF, but content is not valid UPN QR format.\n",
      "First line: ", repr(first_line), "\n",
      "Content preview: ", repr(preview), "\n",
      "Expected first line: 'UPNQR' (Slovenian payment order, upn-qr.si).">>

s_quoted == <<"Q", "R", "'", "s">>

\* what the extraction can hand over: decoded QR contents, never blank
\* (pdf_qr_extract.py, line 126, keeps a string only if s.strip() is not empty)
PdfQrPool ==
    {ScenarioContent,
     upn_text(ScenarioFields(amount_field(2), s_name, s_UPNQR), TRUE),
     upn_text(ScenarioFields(s_amount, s_name, s_UPNQ), TRUE),
     <<" ">> \o s_12 \o <<LF>> \o s_123 \o <<LF>>,
     s_quoted,
     long_text("x", PreviewMax),
     long_text("x", PreviewMax + LongExcess)}

PdfQrLists == UNION {[1..n -> PdfQrPool] : n \in 0..MaxQrCodes}

\* the text layer of the input: none, or one block in the order
\* extract_upn_payments_from_text_fallback reads
PdfTexts == {<<>>, upn_text(AmountFirstBlock(l_iban, l_amount), TRUE)}

InitPdf ==
    /\ pdf_text \in PdfTexts
    /\ pdf_qr_strings = <<>> /\ pdf_payments = None /\ pdf_raised = None
    /\ pdf_built = None /\ pdf_returned = None
    /\ ppc = "extract"
    /\ CoreIdle /\ ExtractIdle /\ TextIdle /\ MailIdle

\* line 153: extract_qr_strings_from_pdf returns a list
PdfExtract ==
    /\ ppc = "extract"
    /\ pdf_qr_strings' \in PdfQrLists
    /\ ppc' = "parse"
    /\ UNCHANGED <<pdf_text, pdf_payments, pdf_raised, pdf_built, pdf_returned>>
    /\ UNCHANGED coreVars /\ UNCHANGED extractVars /\ UNCHANGED textVars
    /\ UNCHANGED mailVars

\* line 153: extract_qr_strings_from_pdf raises (a library is missing, lines
\* 218-221 of pdf_qr_extract.py, or the file cannot be opened or rendered)
PdfExtractRaises ==
    /\ ppc = "extract"
    /\ \E t \in {"RuntimeError", "FileDataError"} :
        pdf_raised' = Some([type |-> t, msg |-> <<>>])
    /\ ppc' = "raised"
    /\ UNCHANGED <<pdf_text, pdf_qr_strings, pdf_payments, pdf_built, pdf_returned>>
    /\ UNCHANGED coreVars /\ UNCHANGED extractVars /\ UNCHANGED textVars
    /\ UNCHANGED mailVars

\* line 154
PdfParseAll ==
    /\ ppc = "parse"
    /\ pdf_payments' = Some(parse_all_unp_qr_contents(pdf_qr_strings))
    /\ ppc' = "check"
    /\ UNCHANGED <<pdf_text, pdf_qr_strings, pdf_raised, pdf_built, pdf_returned>>
    /\ UNCHANGED coreVars /\ UNCHANGED extractVars /\ UNCHANGED textVars
    /\ UNCHANGED mailVars

\* lines 156-163 and 173: no payment, no QR string
PdfRaiseNoQr ==
    /\ ppc = "check"
    /\ pdf_payments[1] = <<>>
    /\ Len(pdf_qr_strings) = 0
    /\ pdf_raised' = Some([type |-> "ValueError", msg |-> NoQrMessage])
    /\ ppc' = "raised"
    /\ UNCHANGED <<pdf_text, pdf_qr_strings, pdf_payments, pdf_built, pdf_returned>>
    /\ UNCHANGED coreVars /\ UNCHANGED extractVars /\ UNCHANGED textVars
    /\ UNCHANGED mailVars

\* lines 156-157 and 164-173: no payment, some QR strings
PdfRaiseNotUpn ==
    /\ ppc = "check"
    /\ pdf_payments[1] = <<>>
    /\ Len(pdf_qr_strings) # 0
    /\ LET n == Len(pdf_qr_strings)
           preview == preview_of(At(pdf_qr_strings, 0))
           first_line == first_line_of(At(pdf_qr_strings, 0))
       IN  pdf_raised' = Some([type |-> "ValueError",
                               msg |-> NotUpnMessage(n, first_line, preview)])
    /\ ppc' = "raised"
    /\ UNCHANGED <<pdf_text, pdf_qr_strings, pdf_payments, pdf_built, pdf_returned>>
    /\ UNCHANGED coreVars /\ UNCHANGED extractVars /\ UNCHANGED textVars
    /\ UNCHANGED mailVars

\* line 175: build_output_pdf(payments, output_pdf) writes the document
PdfBuild ==
    /\ ppc = "check"
    /\ pdf_payments[1] # <<>>
    /\ pdf_built' = Some(pdf_payments[1])
    /\ ppc' = "built"
    /\ UNCHANGED <<pdf_text, pdf_qr_strings, pdf_payments, pdf_raised, pdf_returned>>
    /\ UNCHANGED coreVars /\ UNCHANGED extractVars /\ UNCHANGED textVars
    /\ UNCHANGED mailVars

\* line 175: build_output_pdf is called and raises (the output cannot be
\* written)
PdfBuildRaises ==
    /\ ppc = "check"
    /\ pdf_payments[1] # <<>>
    /\ pdf_built' = Some(pdf_payments[1])
    /\ pdf_raised' = Some([type |-> "OSError", msg |-> <<>>])
    /\ ppc' = "raised"
    /\ UNCHANGED <<pdf_text, pdf_qr_strings, pdf_payments, pdf_returned>>
    /\ UNCHANGED coreVars /\ UNCHANGED extractVars /\ UNCHANGED textVars
    /\ UNCHANGED mailVars

\* line 176
PdfReturn ==
    /\ ppc = "built"
    /\ pdf_returned' = Some(<<pdf_payments[1], "QR">>)
    /\ ppc' = "returned"
    /\ UNCHANGED <<pdf_text, pdf_qr_strings, pdf_payments, pdf_raised, pdf_built>>
    /\ UNCHANGED coreVars /\ UNCHANGED extractVars /\ UNCHANGED textVars
    /\ UNCHANGED mailVars

NextPdf ==
    \/ PdfExtract \/ PdfExtractRaises \/ PdfParseAll \/ PdfRaiseNoQr
    \/ PdfRaiseNotUpn \/ PdfBuild \/ PdfBuildRaises \/ PdfReturn
SpecPdf == InitPdf /\ [][NextPdf]_vars

\* C12: when no payment was parsed, process_pdf raises a ValueError and
\* build_output_pdf is not called; with an empty QR list the message is the
\* "No QR codes found" text; with a non-empty list it gives the number of QR
\* strings, the first line of the first string and a preview of it, which is
\* the string itself up to 200 characters and else its first 200 characters
\* followed by "..."; build_output_pdf is called only with at least one
\* payment.
C12_NoPaymentRaisesValueError ==
    /\ pdf_built # None => (pdf_payments # None /\ Len(pdf_payments[1]) >= 1)
    /\ (ppc \in {"raised", "built", "returned"} /\ pdf_payments = Some(<<>>))
       => /\ ppc = "raised" /\ pdf_built = None /\ pdf_returned = None
          /\ pdf_raised # None /\ pdf_raised[1].type = "ValueError"
          /\ LET msg == pdf_raised[1].msg
                 first == At(pdf_qr_strings, 0)
             IN  IF pdf_qr_strings = <<>>
                 THEN msg[1] = "No QR codes found in the PDF. "
                 ELSE /\ msg[1] = "Found "
                      /\ msg[2] = str_of_nat(Len(pdf_qr_strings))
                      /\ msg[5] = repr(split_lf(strip(first))[1])
                      /\ msg[8] = repr(IF Len(first) <= 200 THEN first
                                       ELSE SubSeq(first, 1, 200) \o <<".", ".", ".">>)
                      /\ msg # NoQrMessage

\* C12's case: QR strings were found, the first longer than 200 characters,
\* none parsed, and the ValueError has left process_pdf
C12_Witness ==
    /\ ppc = "raised"
    /\ pdf_payments = Some(<<>>)
    /\ Len(pdf_qr_strings) = 2
    /\ Len(At(pdf_qr_strings, 0)) > 200
    /\ pdf_raised[1].type = "ValueError"

\* what the three text parsers recover from the text layer
FallbackPayments ==
    extract_upn_payments(pdf_text) \o extract_upn_payments_v2(pdf_text)
        \o extract_upn_payments_from_text_fallback(pdf_text)

MaxPages == 2     \* how many pages a document has at most

DefaultDpi == 300

\* line 240 with the resolutions in falling order
DpisDescending == <<600, 400, DefaultDpi>>

\* line 240: (dpi, 400, 600), dpi being the default of line 212
Dpis == <<DefaultDpi, 400, 600>>

\* line 220 with `and` written `or`
decoder_missing_either(env) == ~env.pyzbar \/ ~env.cv2

\* line 220
decoder_missing(env) == ~env.pyzbar /\ ~env.cv2

\* line 263
any_upnqr(strs) ==
    \E i \in 1..Len(strs) : startswith(strip(strs[i]), s_UPNQR)

x_upn == <<" ">> \o s_UPNQR \o <<LF>> \o s_123
x_other == s_12 \o s_UPNQR

\* what decoding the images of one step adds to result: nothing without
\* PIL (lines 110-111 and 154-155 return no image)
Found(env) == IF env.pil THEN {<<>>, <<x_upn>>, <<x_other>>} ELSE {<<>>}

InitExtract ==
    /\ x_env \in [fitz : BOOLEAN, pil : BOOLEAN, pyzbar : BOOLEAN, cv2 : BOOLEAN]
    /\ x_pages \in 0..MaxPages
    /\ x_doc = "none" /\ x_result = <<>> /\ x_renders = <<>>
    /\ x_pass = 0 /\ x_page = 0
    /\ x_raised = None /\ x_returned = None
    /\ xpc = "start"
    /\ CoreIdle /\ PdfIdle /\ TextIdle /\ MailIdle

\* lines 218-219
XRaiseNoRenderer ==
    /\ xpc = "start"
    /\ ~x_env.fitz
    /\ x_raised' = Some([type |-> "RuntimeError",
                         msg |-> "PyMuPDF (fitz) required. Install: pip install pymupdf"])
    /\ xpc' = "raised"
    /\ UNCHANGED <<x_env, x_pages, x_doc, x_result, x_renders, x_pass, x_page, x_returned>>
    /\ UNCHANGED coreVars /\ UNCHANGED pdfVars /\ UNCHANGED textVars
    /\ UNCHANGED mailVars

\* lines 220-221
XRaiseNoDecoder ==
    /\ xpc = "start"
    /\ x_env.fitz
    /\ decoder_missing(x_env)
    /\ x_raised' = Some([type |-> "RuntimeError",
                         msg |-> "QR decoder required: pip install pyzbar (and zbar) or opencv-python-headless"])
    /\ xpc' = "raised"
    /\ UNCHANGED <<x_env, x_pages, x_doc, x_result, x_renders, x_pass, x_page, x_returned>>
    /\ UNCHANGED coreVars /\ UNCHANGED pdfVars /\ UNCHANGED textVars
    /\ UNCHANGED mailVars

\* lines 223-225: fitz.open(pdf_path)
XOpen ==
    /\ xpc = "start"
    /\ x_env.fitz
    /\ ~decoder_missing(x_env)
    /\ x_doc' = "open"
    /\ xpc' = "embedded"
    /\ UNCHANGED <<x_env, x_pages, x_result, x_renders, x_pass, x_page, x_raised, x_returned>>
    /\ UNCHANGED coreVars /\ UNCHANGED pdfVars /\ UNCHANGED textVars
    /\ UNCHANGED mailVars

\* line 224: fitz.open raises (the file is not a PDF)
XOpenRaises ==
    /\ xpc = "start"
    /\ x_env.fitz
    /\ ~decoder_missing(x_env)
    /\ x_raised' = Some([type |-> "FileDataError", msg |-> ""])
    /\ xpc' = "raised"
    /\ UNCHANGED <<x_env, x_pages, x_doc, x_result, x_renders, x_pass, x_page, x_returned>>
    /\ UNCHANGED coreVars /\ UNCHANGED pdfVars /\ UNCHANGED textVars
    /\ UNCHANGED mailVars

\* lines 231-235: the QR codes of the embedded images; then the first pass
XEmbedded ==
    /\ xpc = "embedded"
    /\ \E found \in Found(x_env) : x_result' = x_result \o found
    /\ x_pass' = 1 /\ x_page' = 0
    /\ xpc' = "render"
    /\ UNCHANGED <<x_env, x_pages, x_doc, x_renders, x_raised, x_returned>>
    /\ UNCHANGED coreVars /\ UNCHANGED pdfVars /\ UNCHANGED textVars
    /\ UNCHANGED mailVars

\* lines 241-260: one page of the current pass
XRenderPage ==
    /\ xpc = "render"
    /\ x_page < x_pages
    /\ x_renders' = Append(x_renders, <<Dpis[x_pass], x_page>>)
    /\ \E found \in Found(x_env) : x_result' = x_result \o found
    /\ x_page' = x_page + 1
    /\ UNCHANGED <<x_env, x_pages, x_doc, x_pass, x_raised, x_returned, xpc>>
    /\ UNCHANGED coreVars /\ UNCHANGED pdfVars /\ UNCHANGED textVars
    /\ UNCHANGED mailVars

\* lines 242 and 252: rendering or decoding the page raises
XRenderRaises ==
    /\ xpc = "render"
    /\ x_page < x_pages
    /\ x_env.pil
    /\ x_renders' = Append(x_renders, <<Dpis[x_pass], x_page>>)
    /\ x_raised' = Some([type |-> "RenderError", msg |-> ""])
    /\ xpc' = "finally"
    /\ UNCHANGED <<x_env, x_pages, x_doc, x_result, x_pass, x_page, x_returned>>
    /\ UNCHANGED coreVars /\ UNCHANGED pdfVars /\ UNCHANGED textVars
    /\ UNCHANGED mailVars

\* lines 263-264: a UPNQR string was collected: break
XPassBreak ==
    /\ xpc = "render"
    /\ x_page = x_pages
    /\ any_upnqr(x_result)
    /\ xpc' = "finally"
    /\ UNCHANGED <<x_env, x_pages, x_doc, x_result, x_renders, x_pass, x_page,
                   x_raised, x_returned>>
    /\ UNCHANGED coreVars /\ UNCHANGED pdfVars /\ UNCHANGED textVars
    /\ UNCHANGED mailVars

\* lines 263 and 240: none collected: the next resolution
XPassNext ==
    /\ xpc = "render"
    /\ x_page = x_pages
    /\ ~any_upnqr(x_result)
    /\ x_pass < Len(Dpis)
    /\ x_pass' = x_pass + 1
    /\ x_page' = 0
    /\ UNCHANGED <<x_env, x_pages, x_doc, x_result, x_renders, x_raised, x_returned, xpc>>
    /\ UNCHANGED coreVars /\ UNCHANGED pdfVars /\ UNCHANGED textVars
    /\ UNCHANGED mailVars

\* lines 263 and 240: none collected and the resolutions are exhausted
XLoopEnd ==
    /\ xpc = "render"
    /\ x_page = x_pages
    /\ ~any_upnqr(x_result)
    /\ x_pass = Len(Dpis)
    /\ xpc' = "finally"
    /\ UNCHANGED <<x_env, x_pages, x_doc, x_result, x_renders, x_pass, x_page,
                   x_raised, x_returned>>
    /\ UNCHANGED coreVars /\ UNCHANGED pdfVars /\ UNCHANGED textVars
    /\ UNCHANGED mailVars

\* lines 265-266: finally: doc.close()
XClose ==
    /\ xpc = "finally"
    /\ x_doc' = "closed"
    /\ xpc' = IF x_raised # None THEN "raised" ELSE "return"
    /\ UNCHANGED <<x_env, x_pages, x_result, x_renders, x_pass, x_page,
                   x_raised, x_returned>>
    /\ UNCHANGED coreVars /\ UNCHANGED pdfVars /\ UNCHANGED textVars
    /\ UNCHANGED mailVars

\* line 267
XReturn ==
    /\ xpc = "return"
    /\ x_returned' = Some(x_result)
    /\ xpc' = "returned"
    /\ UNCHANGED <<x_env, x_pages, x_doc, x_result, x_renders, x_pass, x_page, x_raised>>
    /\ UNCHANGED coreVars /\ UNCHANGED pdfVars /\ UNCHANGED textVars
    /\ UNCHANGED mailVars

NextExtract ==
    \/ XRaiseNoRenderer \/ XRaiseNoDecoder \/ XOpen \/ XOpenRaises
    \/ XEmbedded \/ XRenderPage \/ XRenderRaises \/ XPassBreak \/ XPassNext
    \/ XLoopEnd \/ XClose \/ XReturn
SpecExtract == InitExtract /\ [][NextExtract]_vars

\* C13: if PyMuPDF is absent, or neither pyzbar nor OpenCV is available,
\* extract_qr_strings_from_pdf raises a RuntimeError at once: the document
\* is never opened, no page is rendered, nothing is collected or returned and
\* nothing is tried again; if PyMuPDF and at least one decoder are present,
\* no RuntimeError is raised.
C13_MissingLibraryRaisesAtOnce ==
    LET missing == ~x_env.fitz \/ (~x_env.pyzbar /\ ~x_env.cv2) IN
    xpc \notin {"idle", "start"} =>
        /\ missing =>
            /\ xpc = "raised"
            /\ x_raised # None /\ x_raised[1].type = "RuntimeError"
            /\ x_doc = "none" /\ x_renders = <<>> /\ x_result = <<>>
            /\ x_pass = 0 /\ x_returned = None
        /\ ~missing =>
            (x_raised = None \/ x_raised[1].type # "RuntimeError")

\* C13's cases: the RuntimeError raised with the renderer present and both
\* decoders absent
C13_Witness ==
    /\ xpc = "raised"
    /\ x_env.fitz /\ ~x_env.pyzbar /\ ~x_env.cv2
    /\ x_raised[1].type = "RuntimeError"
    /\ x_doc = "none"

\* C19: the render calls are, in order, every page at 300 DPI, then every
\* page at 400 DPI, then every page at 600 DPI, cut where the function stops;
\* a further pass is begun only when no string collected so far starts with
\* UPNQR after trimming; the function returns after a complete pass, the
\* first to third, and before the third only if such a string was
\* collected; once opened, the document is closed before the function
\* returns or its exception leaves.
C19_EscalatingResolutions ==
    LET n == x_pages
        dpi_of(k) == IF k = 1 THEN 300 ELSE IF k = 2 THEN 400 ELSE 600
    IN
    /\ Len(x_renders) <= 3 * n
    /\ \A k \in 1..Len(x_renders) :
           x_renders[k] = <<dpi_of(((k - 1) \div n) + 1), (k - 1) % n>>
    /\ (xpc = "render" /\ x_pass > 1 /\ x_page = 0) => ~any_upnqr(x_result)
    /\ xpc \in {"return", "returned"} =>
           /\ x_pass \in 1..3
           /\ Len(x_renders) = x_pass * n
           /\ x_pass < 3 => any_upnqr(x_result)
    /\ (xpc \in {"raised", "return", "returned"} /\ x_doc # "none") => x_doc = "closed"
    /\ xpc \in {"embedded", "render", "finally"} => x_doc = "open"

\* C19's cases: a return after the second pass over two pages, the UPNQR
\* string found at 400 DPI only, the document closed
C19_Witness ==
    /\ xpc = "returned"
    /\ x_pages = 2 /\ x_pass = 2
    /\ Len(x_renders) = 4
    /\ x_renders[3] = <<400, 0>>
    /\ any_upnqr(x_result)
    /\ x_doc = "closed"

(***************************************************************************)
(* service/mail_service.py: main and run_once (SpecMail).                  *)
(* The mailbox content and the outcome of every network call are the       *)
(* environment's choice.  A message on the server is a record: whether it  *)
(* can be fetched and parsed, and its PDF attachments, each "upn" (the     *)
(* conversion finds payments) or "bad" (process_pdf raises).               *)
(***************************************************************************)
MaxMessages == 2  \* how many unseen messages a poll finds at most
MaxCycles == 2    \* how many polls of the endless loop are followed

MessageKinds ==
    {[readable |-> FALSE, pdfs |-> <<"upn">>],
     [readable |-> TRUE, pdfs |-> <<>>],
     [readable |-> TRUE, pdfs |-> <<"upn">>],
     [readable |-> TRUE, pdfs |-> <<"bad">>],
     [readable |-> TRUE, pdfs |-> <<"bad", "upn">>]}

Mailboxes == UNION {[1..n -> MessageKinds] : n \in 0..MaxMessages}

\* lines 66-93: the for loop of fetch_attachments from message number num on
RECURSIVE fetch_from(_, _)
fetch_from(mailbox, num) ==
    IF num > Len(mailbox) THEN <<>>
    ELSE IF ~mailbox[num].readable THEN fetch_from(mailbox, num + 1)
    ELSE IF mailbox[num].pdfs = <<>> THEN fetch_from(mailbox, num + 1)
    ELSE <<[num |-> num, attachments |-> mailbox[num].pdfs]>>
             \o fetch_from(mailbox, num + 1)

\* lines 59-94 without the try of line 67: one unreadable message loses the
\* whole result
fetch_attachments_all_or_nothing(mailbox) ==
    IF \E n \in 1..Len(mailbox) : ~mailbox[n].readable THEN <<>>
    ELSE fetch_from(mailbox, 1)

\* lines 59-94: the unseen messages that have at least one PDF attachment
fetch_attachments(mailbox) == fetch_from(mailbox, 1)

\* lines 223-224 with `except RuntimeError`
main_catches_runtime_error(exc) == exc.type = "RuntimeError"

\* lines 223-224: except Exception
main_catches(exc) == exc.type \in {"OSError", "IMAP4.error", "IMAP4.abort", "RuntimeError"}

\* lines 182-185
reply_body(body_parts) ==
    IF body_parts = <<>> THEN <<"No UNP QR codes found in the attached PDF(s).">>
    ELSE <<"Payment register(s):\n\n">> \o body_parts

InitMail ==
    /\ mpc = "config" /\ m_cycles = 0 /\ m_sleeps = 0 /\ m_caught = <<>>
    /\ CycleIdle
    /\ CoreIdle /\ PdfIdle /\ ExtractIdle /\ TextIdle

OutsideMail == <<coreVars, pdfVars, extractVars, textVars>>

\* lines 211-219: get_config() returns
MConfig ==
    /\ mpc = "config"
    /\ mpc' = "loop"
    /\ UNCHANGED <<m_cycles, m_sleeps, m_caught>>
    /\ UNCHANGED cycleVars /\ UNCHANGED OutsideMail

\* lines 213-215: a required setting is missing: return 1
MConfigFails ==
    /\ mpc = "config"
    /\ mpc' = "exited"
    /\ UNCHANGED <<m_cycles, m_sleeps, m_caught>>
    /\ UNCHANGED cycleVars /\ UNCHANGED OutsideMail

\* lines 220-222 and 148-150: run_once(config) is called
MCallRunOnce ==
    /\ mpc = "loop"
    /\ m_cycles < MaxCycles
    /\ m_cycles' = m_cycles + 1
    /\ mpc' = "cycle"
    /\ rpc' = "connect"
    /\ r_mailbox' \in Mailboxes
    /\ r_flagged' = {} /\ r_session' = "none" /\ r_expunges' = 0
    /\ r_messages' = <<>> /\ r_msg' = 0 /\ r_att' = 0
    /\ r_reply_attachments' = <<>> /\ r_body_parts' = <<>> /\ r_converted' = <<>>
    /\ r_tmp' = {} /\ r_log' = <<>> /\ r_exc' = None
    /\ UNCHANGED <<m_sleeps, m_caught>>
    /\ UNCHANGED OutsideMail

\* line 222: run_once has returned
MCycleReturned ==
    /\ mpc = "cycle" /\ rpc = "returned"
    /\ mpc' = "sleep"
    /\ UNCHANGED <<m_cycles, m_sleeps, m_caught>>
    /\ UNCHANGED cycleVars /\ UNCHANGED OutsideMail

\* lines 223-224: an exception has left run_once
MCycleRaised ==
    /\ mpc = "cycle" /\ rpc = "raised"
    /\ IF main_catches(r_exc[1])
       THEN m_caught' = Append(m_caught, r_exc[1]) /\ mpc' = "sleep"
       ELSE m_caught' = m_caught /\ mpc' = "exited"
    /\ UNCHANGED <<m_cycles, m_sleeps>>
    /\ UNCHANGED cycleVars /\ UNCHANGED OutsideMail

\* line 225: time.sleep(config["poll_interval"]) returns
MSleep ==
    /\ mpc = "sleep"
    /\ m_sleeps' = m_sleeps + 1
    /\ mpc' = "loop"
    /\ UNCHANGED <<m_cycles, m_caught>>
    /\ UNCHANGED cycleVars /\ UNCHANGED OutsideMail

RunOnceFrame == UNCHANGED mainVars /\ UNCHANGED OutsideMail

\* the message the for loop of line 162 is at
CurrentMessage == r_messages[r_msg]

\* the temporary input file of the attachment the loop of line 169 is at
CurrentTmp == <<CurrentMessage.num, r_att + 1>>

\* line 151: imaplib.IMAP4_SSL(...) connects
RConnect ==
    /\ rpc = "connect"
    /\ r_session' = "connected"
    /\ rpc' = "login"
    /\ UNCHANGED <<r_mailbox, r_flagged, r_expunges, r_messages, r_msg, r_att,
                   r_reply_attachments, r_body_parts, r_converted, r_tmp, r_log, r_exc>>
    /\ RunOnceFrame

\* line 151: the connection fails; nothing in run_once catches it
RConnectRaises ==
    /\ rpc = "connect"
    /\ r_exc' = Some([type |-> "OSError"])
    /\ rpc' = "raised"
    /\ UNCHANGED <<r_mailbox, r_flagged, r_session, r_expunges, r_messages, r_msg, r_att,
                   r_reply_attachments, r_body_parts, r_converted, r_tmp, r_log>>
    /\ RunOnceFrame

\* lines 152-153: imap.login succeeds
RLogin ==
    /\ rpc = "login"
    /\ r_session' = "logged_in"
    /\ rpc' = "fetch"
    /\ UNCHANGED <<r_mailbox, r_flagged, r_expunges, r_messages, r_msg, r_att,
                   r_reply_attachments, r_body_parts, r_converted, r_tmp, r_log, r_exc>>
    /\ RunOnceFrame

\* lines 154-156: imap.login raises IMAP4.error: log and return
RLoginFails ==
    /\ rpc = "login"
    /\ rpc' = "returned"
    /\ UNCHANGED <<r_mailbox, r_flagged, r_session, r_expunges, r_messages, r_msg, r_att,
                   r_reply_attachments, r_body_parts, r_converted, r_tmp, r_log, r_exc>>
    /\ RunOnceFrame

\* lines 158-161: fetch_attachments returns; an empty list returns through finally
RFetch ==
    /\ rpc = "fetch"
    /\ r_messages' = fetch_attachments(r_mailbox)
    /\ r_msg' = 0
    /\ rpc' = IF r_messages' = <<>> THEN "finally" ELSE "next_msg"
    /\ UNCHANGED <<r_mailbox, r_flagged, r_session, r_expunges, r_att,
                   r_reply_attachments, r_body_parts, r_converted, r_tmp, r_log, r_exc>>
    /\ RunOnceFrame

\* lines 61-62: imap.select or imap.search raises; the finally clause runs
RFetchRaises ==
    /\ rpc = "fetch"
    /\ r_exc' = Some([type |-> "IMAP4.error"])
    /\ rpc' = "finally"
    /\ UNCHANGED <<r_mailbox, r_flagged, r_session, r_expunges, r_messages, r_msg, r_att,
                   r_reply_attachments, r_body_parts, r_converted, r_tmp, r_log>>
    /\ RunOnceFrame

\* lines 162-168: the next fetched message
RNextMessage ==
    /\ rpc = "next_msg"
    /\ r_msg < Len(r_messages)
    /\ r_msg' = r_msg + 1
    /\ r_att' = 0
    /\ r_reply_attachments' = <<>>
    /\ r_body_parts' = <<>>
    /\ r_converted' = None
    /\ rpc' = "next_att"
    /\ UNCHANGED <<r_mailbox, r_flagged, r_session, r_expunges, r_messages,
                   r_tmp, r_log, r_exc>>
    /\ RunOnceFrame

\* line 162: the for loop over the messages is exhausted
RMessagesDone ==
    /\ rpc = "next_msg"
    /\ r_msg = Len(r_messages)
    /\ rpc' = "finally"
    /\ UNCHANGED <<r_mailbox, r_flagged, r_session, r_expunges, r_messages, r_msg, r_att,
                   r_reply_attachments, r_body_parts, r_converted, r_tmp, r_log, r_exc>>
    /\ RunOnceFrame

\* lines 169-170 and 101-105: the attachment is written to a temporary file
RSaveTemp ==
    /\ rpc = "next_att"
    /\ r_att < Len(CurrentMessage.attachments)
    /\ r_tmp' = r_tmp \cup {CurrentTmp}
    /\ rpc' = "convert"
    /\ UNCHANGED <<r_mailbox, r_flagged, r_session, r_expunges, r_messages, r_msg, r_att,
                   r_reply_attachments, r_body_parts, r_converted, r_log, r_exc>>
    /\ RunOnceFrame

\* lines 101-103: the temporary file cannot be written; this is outside the
\* try of process_attachment, so the exception leaves the loops
RSaveTempRaises ==
    /\ rpc = "next_att"
    /\ r_att < Len(CurrentMessage.attachments)
    /\ r_exc' = Some([type |-> "OSError"])
    /\ rpc' = "finally"
    /\ UNCHANGED <<r_mailbox, r_flagged, r_session, r_expunges, r_messages, r_msg, r_att,
                   r_reply_attachments, r_body_parts, r_converted, r_tmp, r_log>>
    /\ RunOnceFrame

\* lines 106-113: process_pdf returns the payments
RConvert ==
    /\ rpc = "convert"
    /\ CurrentMessage.attachments[r_att + 1] = "upn"
    /\ r_converted' = Some([file |-> r_att + 1, what |-> "converted"])
    /\ rpc' = "unlink"
    /\ UNCHANGED <<r_mailbox, r_flagged, r_session, r_expunges, r_messages, r_msg, r_att,
                   r_reply_attachments, r_body_parts, r_tmp, r_log, r_exc>>
    /\ RunOnceFrame

\* lines 114-116: process_pdf raises: (None, None)
RConvertFails ==
    /\ rpc = "convert"
    /\ CurrentMessage.attachments[r_att + 1] = "bad"
    /\ r_converted' = None
    /\ rpc' = "unlink"
    /\ UNCHANGED <<r_mailbox, r_flagged, r_session, r_expunges, r_messages, r_msg, r_att,
                   r_reply_attachments, r_body_parts, r_tmp, r_log, r_exc>>
    /\ RunOnceFrame

\* lines 97-121 with os.unlink at the end of the try body instead of the
\* finally clause: the input file of a failed conversion stays
RCollectUnlinkOnSuccess ==
    /\ rpc = "unlink"
    /\ r_tmp' = IF r_converted = None THEN r_tmp ELSE r_tmp \ {CurrentTmp}
    /\ r_reply_attachments' =
           Append(r_reply_attachments, [file |-> r_att + 1, what |-> "original"])
               \o r_converted
    /\ r_body_parts' = r_body_parts \o
           (IF r_converted = None THEN <<>> ELSE <<[register |-> r_att + 1]>>)
    /\ r_att' = r_att + 1
    /\ rpc' = "next_att"
    /\ UNCHANGED <<r_mailbox, r_flagged, r_session, r_expunges, r_messages, r_msg,
                   r_converted, r_log, r_exc>>
    /\ RunOnceFrame

\* lines 117-121 and 173-181: the input file is unlinked, the original and,
\* if there is one, the converted file and its register join the reply
RCollect ==
    /\ rpc = "unlink"
    /\ r_tmp' = r_tmp \ {CurrentTmp}
    /\ r_reply_attachments' =
           Append(r_reply_attachments, [file |-> r_att + 1, what |-> "original"])
               \o r_converted
    /\ r_body_parts' = r_body_parts \o
           (IF r_converted = None THEN <<>> ELSE <<[register |-> r_att + 1]>>)
    /\ r_att' = r_att + 1
    /\ rpc' = "next_att"
    /\ UNCHANGED <<r_mailbox, r_flagged, r_session, r_expunges, r_messages, r_msg,
                   r_converted, r_log, r_exc>>
    /\ RunOnceFrame

\* what lines 182-201 leave behind for the current message
Handled(sent, stored) ==
    [num |-> CurrentMessage.num,
     attachments |-> r_reply_attachments,
     body |-> reply_body(r_body_parts),
     sent |-> sent,
     stored |-> stored]

AttachmentsDone ==
    /\ rpc = "next_att"
    /\ r_att = Len(CurrentMessage.attachments)

\* lines 182-197: the reply is sent and the message is flagged \Deleted
RSendDelete ==
    /\ AttachmentsDone
    /\ r_log' = Append(r_log, Handled(TRUE, TRUE))
    /\ r_flagged' = r_flagged \cup {CurrentMessage.num}
    /\ rpc' = "next_msg"
    /\ UNCHANGED <<r_mailbox, r_session, r_expunges, r_messages, r_msg, r_att,
                   r_reply_attachments, r_body_parts, r_converted, r_tmp, r_exc>>
    /\ RunOnceFrame

\* lines 182-199: the reply is sent, imap.store raises and is logged
RSendDeleteFails ==
    /\ AttachmentsDone
    /\ r_log' = Append(r_log, Handled(TRUE, FALSE))
    /\ rpc' = "next_msg"
    /\ UNCHANGED <<r_mailbox, r_flagged, r_session, r_expunges, r_messages, r_msg, r_att,
                   r_reply_attachments, r_body_parts, r_converted, r_tmp, r_exc>>
    /\ RunOnceFrame

\* lines 182-201 with imap.store in a finally clause: flagged although
\* send_reply raised
RSendFailsStillFlags ==
    /\ AttachmentsDone
    /\ r_log' = Append(r_log, Handled(FALSE, FALSE))
    /\ r_flagged' = r_flagged \cup {CurrentMessage.num}
    /\ rpc' = "next_msg"
    /\ UNCHANGED <<r_mailbox, r_session, r_expunges, r_messages, r_msg, r_att,
                   r_reply_attachments, r_body_parts, r_converted, r_tmp, r_exc>>
    /\ RunOnceFrame

\* lines 182-194 and 200-201: send_reply raises and is logged
RSendFails ==
    /\ AttachmentsDone
    /\ r_log' = Append(r_log, Handled(FALSE, FALSE))
    /\ rpc' = "next_msg"
    /\ UNCHANGED <<r_mailbox, r_flagged, r_session, r_expunges, r_messages, r_msg, r_att,
                   r_reply_attachments, r_body_parts, r_converted, r_tmp, r_exc>>
    /\ RunOnceFrame

\* lines 202-207: expunge (its failure is swallowed), then logout; a pending
\* exception goes on to the caller
RFinally ==
    /\ rpc = "finally"
    /\ r_expunges' = r_expunges + 1
    /\ r_session' = "logged_out"
    /\ rpc' = IF r_exc = None THEN "returned" ELSE "raised"
    /\ UNCHANGED <<r_mailbox, r_flagged, r_messages, r_msg, r_att,
                   r_reply_attachments, r_body_parts, r_converted, r_tmp, r_log, r_exc>>
    /\ RunOnceFrame

\* lines 202-207: imap.logout() raises inside the finally clause
RFinallyLogoutRaises ==
    /\ rpc = "finally"
    /\ r_expunges' = r_expunges + 1
    /\ r_session' = "logout_failed"
    /\ r_exc' = Some([type |-> "IMAP4.abort"])
    /\ rpc' = "raised"
    /\ UNCHANGED <<r_mailbox, r_flagged, r_messages, r_msg, r_att,
                   r_reply_attachments, r_body_parts, r_converted, r_tmp, r_log>>
    /\ RunOnceFrame

NextMail ==
    \/ MConfig \/ MConfigFails \/ MCallRunOnce \/ MCycleReturned \/ MCycleRaised \/ MSleep
    \/ RConnect \/ RConnectRaises \/ RLogin \/ RLoginFails \/ RFetch \/ RFetchRaises
    \/ RNextMessage \/ RMessagesDone \/ RSaveTemp \/ RSaveTempRaises
    \/ RConvert \/ RConvertFails \/ RCollect
    \/ RSendDelete \/ RSendDeleteFails \/ RSendFails
    \/ RFinally \/ RFinallyLogoutRaises

SpecMail == InitMail /\ [][NextMail]_vars

(***************************************************************************)
(* Claims about the mail cycle.                                            *)
(***************************************************************************)
\* the unseen messages of the mailbox that can be read and carry a PDF
WithPdf == {n \in 1..Len(r_mailbox) : r_mailbox[n].readable /\ r_mailbox[n].pdfs # <<>>}

LogEntriesOf(n) == {i \in 1..Len(r_log) : r_log[i].num = n}

\* run_once went through its loops and no exception is on its way out
RanThrough ==
    /\ rpc \in {"finally", "returned"}
    /\ r_session \in {"logged_in", "logged_out"}
    /\ r_exc = None

\* the reply of a log entry holds what each attachment of its message is owed
AllAttachmentsProcessed(entry) ==
    LET pdfs == r_mailbox[entry.num].pdfs
        has(k, what) == \E j \in 1..Len(entry.attachments) :
                            entry.attachments[j] = [file |-> k, what |-> what]
    IN \A k \in 1..Len(pdfs) :
           /\ has(k, "original")
           /\ pdfs[k] = "upn" => has(k, "converted")

\* C15: a failed conversion does not keep the later attachments of the
\* message from being processed, and an unreadable message, a failed send or
\* a failed delete does not keep the other fetched messages from being
\* processed: once run_once is through its loops, every readable message
\* with a PDF has been handled, whatever happened to the ones before it, and
\* every handled message has had each of its attachments processed.
C15_FailuresAreIsolated ==
    /\ \A i \in 1..Len(r_log) : AllAttachmentsProcessed(r_log[i])
    /\ RanThrough => \A n \in WithPdf : LogEntriesOf(n) # {}

\* a first message whose first attachment did not convert and whose reply
\* could not be sent, its second attachment converted all the same, and the
\* second message was handled after it
C15_Witness ==
    /\ rpc = "returned"
    /\ Len(r_log) = 2
    /\ r_mailbox[1].pdfs = <<"bad", "upn">>
    /\ ~r_log[1].sent
    /\ \E j \in 1..Len(r_log[1].attachments) :
           r_log[1].attachments[j] = [file |-> 2, what |-> "converted"]
    /\ r_log[2].num = 2

CycleOver == rpc \in {"idle", "returned", "raised"}

\* C16: a cycle starts only when the one before it is over (with expunge and
\* logout behind it if it had logged in) and the sleep after it has
\* returned; and main leaves its loop only before the first cycle: an
\* exception out of a cycle never ends it.
C16_SequentialPolling ==
    [][/\ m_cycles' # m_cycles =>
              /\ CycleOver
              /\ mpc = "loop"
              /\ m_sleeps = m_cycles
              /\ r_session \in {"logged_in", "logged_out", "logout_failed"} =>
                     r_expunges = 1 /\ r_session # "logged_in"
       /\ mpc' = "exited" => mpc \in {"config", "exited"}
       /\ (mpc = "cycle" /\ rpc = "raised" /\ mpc' # mpc) => mpc' = "sleep"]_vars

\* the second cycle is running after the first one ended with an exception
C16_Witness ==
    /\ m_cycles = 2
    /\ m_sleeps = 1
    /\ Len(m_caught) = 1
    /\ mpc = "cycle"

\* C20: a message is flagged \Deleted only if its own reply was sent; a
\* message without a PDF is neither replied to nor flagged; and every cycle
\* that logged in has tried expunge and logout when it ends.
C20_DeleteOnlyAfterReply ==
    /\ \A n \in r_flagged : \E i \in LogEntriesOf(n) : r_log[i].sent
    /\ \A i \in 1..Len(r_log) : ~r_log[i].sent => r_log[i].num \notin r_flagged
    /\ \A i \in 1..Len(r_log) : r_log[i].num \in WithPdf
    /\ r_flagged \subseteq WithPdf
    /\ (rpc \in {"returned", "raised"} /\ r_session \notin {"none", "connected"}) =>
           /\ r_expunges = 1
           /\ r_session \in {"logged_out", "logout_failed"}

\* a cycle that left a message without PDF alone, could not send one reply
\* and did not flag that message, and has expunged and logged out
C20_Witness ==
    /\ rpc = "returned"
    /\ r_session = "logged_out"
    /\ r_expunges = 1
    /\ Len(r_mailbox) = 2
    /\ r_mailbox[1].pdfs = <<>>
    /\ Len(r_log) = 1
    /\ r_log[1].num = 2
    /\ ~r_log[1].sent
    /\ r_flagged = {}

\* what the reply to a message with these attachments is owed: each original,
\* followed by its converted file if its conversion succeeded
ExpectedAttachments(pdfs) ==
    concat([k \in 1..Len(pdfs) |->
               <<[file |-> k, what |-> "original"]>>
                   \o (IF pdfs[k] = "upn" THEN <<[file |-> k, what |-> "converted"]>>
                       ELSE <<>>)])

\* the register sections owed: one for each attachment that converted
ExpectedRegisters(pdfs) ==
    SelectSeq([k \in 1..Len(pdfs) |-> [register |-> k]],
              LAMBDA part : pdfs[part.register] = "upn")

\* C23: run_once attempts exactly one reply for every fetched message with a
\* PDF, converted or not: the replies follow the fetched messages one for one
\* (all of them once the loops are through); a reply holds every original,
\* and a converted file and a register section exactly for the attachments
\* that converted; with none converted its body is the fixed 'No UNP QR
\* codes found' text; and the temporary input file of an attachment exists
\* only while that attachment is being converted, whichever way it ends.
C23_OneReplyPerMessage ==
    /\ Len(r_log) <= Len(r_messages)
    /\ \A i \in 1..Len(r_log) :
           LET pdfs == r_mailbox[r_log[i].num].pdfs IN
           /\ r_log[i].num = r_messages[i].num
           /\ r_log[i].attachments = ExpectedAttachments(pdfs)
           /\ r_log[i].body =
                  IF \A k \in 1..Len(pdfs) : pdfs[k] # "upn"
                  THEN <<"No UNP QR codes found in the attached PDF(s).">>
                  ELSE <<"Payment register(s):\n\n">> \o ExpectedRegisters(pdfs)
    /\ rpc = "next_msg" => Len(r_log) = r_msg
    /\ RanThrough => Len(r_log) = Len(r_messages)
    /\ r_tmp = IF rpc \in {"convert", "unlink"} THEN {CurrentTmp} ELSE {}

\* a cycle over a message whose first attachment failed and whose second
\* converted, and a message whose only attachment failed: one reply each,
\* the second with the fixed text, and no temporary file left
C23_Witness ==
    /\ rpc = "returned"
    /\ Len(r_log) = 2
    /\ r_mailbox[1].pdfs = <<"bad", "upn">>
    /\ r_mailbox[2].pdfs = <<"bad">>
    /\ Len(r_log[1].attachments) = 3
    /\ r_log[2].attachments = <<[file |-> 1, what |-> "original"]>>
    /\ r_log[2].body = <<"No UNP QR codes found in the attached PDF(s).">>
    /\ r_tmp = {}

====
